---------------------------- MODULE Spec2Model ----------------------------
(***************************************************************************)
(* Listener subsystem of the serial communication manager native library:  *)
(*   - the Windows handle registry (windows_serial.c): setUpDataLooper-    *)
(*     Thread, setUpEventLooperThread, setupLooperThread, destroyData-     *)
(*     LooperThread, destroyEventLooperThread;                             *)
(*   - the Unix data listener thread data_looper (unix_like_serial_lib.c); *)
(*   - the Unix event listener thread event_looper;                        *)
(*   - the port presence monitor port_monitor, device_added,               *)
(*     device_removed.                                                     *)
(* Each subsystem has its own specifications (SpecWin, SpecWinSeq,         *)
(* SpecTable, SpecData, SpecDataLive, SpecThrottle, SpecFault, SpecAccum,  *)
(* SpecEvent, SpecMon, SpecMonPair, and SpecLifetime for the two listener  *)
(* threads of one port) over one shared set of variables.                  *)
(***************************************************************************)
EXTENDS Integers, Sequences, FiniteSets, TLC

(***************************************************************************)
(* Bit arithmetic on non-negative integers, as C's & and | compute it.     *)
(***************************************************************************)
RECURSIVE BitAnd(_, _)
BitAnd(a, b) ==
    IF a = 0 \/ b = 0 THEN 0
    ELSE (IF a % 2 = 1 /\ b % 2 = 1 THEN 1 ELSE 0) + 2 * BitAnd(a \div 2, b \div 2)

RECURSIVE BitOr(_, _)
BitOr(a, b) ==
    IF a = 0 THEN b
    ELSE IF b = 0 THEN a
    ELSE (IF a % 2 = 1 \/ b % 2 = 1 THEN 1 ELSE 0) + 2 * BitOr(a \div 2, b \div 2)

(***************************************************************************)
(* Windows registry: constants                                             *)
(***************************************************************************)
MAX_NUM_THREADS == 1024

\* Communication event bits of the Windows API, as the code names them.
EV_RXCHAR == 1
EV_RXFLAG == 2
EV_CTS == 8
EV_DSR == 16
EV_RLSD == 32
EV_BREAK == 64
EV_ERR == 128
EV_RING == 256

\* The error result every failing path of the registry returns.
E_FAIL == -240

\* Bounds of the registry model.
NumCallers == 2
NumHandles == 1
MaxSetups == 2
MaxCsDepth == 1

Callers == 1..NumCallers
Handles == 1..NumHandles

\* The slots of handle_looper_info the model can reach: 0..dtp_index, where
\* dtp_index <= MaxSetups, and never more than the table holds.
TableSize == IF MaxSetups + 1 < MAX_NUM_THREADS THEN MaxSetups + 1 ELSE MAX_NUM_THREADS
Slots == 0..(TableSize - 1)

\* The mask setUpEventLooperThread ORs in, and destroyDataLooperThread sets.
EventBits ==
    BitOr(EV_BREAK, BitOr(EV_CTS, BitOr(EV_DSR, BitOr(EV_ERR,
        BitOr(EV_RING, BitOr(EV_RLSD, EV_RXFLAG))))))

\* struct looper_thread_params zero-initialised: = { {0} }.
ZeroParams ==
    [hComm |-> 0, looper_ref |-> 0, data_enabled |-> 0, event_enabled |-> 0,
     thread_exit |-> 0, thread_handle |-> 0]

VARIABLES
    \* ---- Windows registry ----
    handle_looper_info, \* the registry table: slot -> looper_thread_params
    dtp_index,          \* index at which the next registration is stored
    csOwner,            \* caller that holds csmutex, 0 when free
    csCount,            \* recursion count of csmutex
    commMask,           \* per handle: the wait mask of the port (Get/SetCommMask)
    thr,                \* per slot: the listener thread spawned for it
    pendingWake,        \* slots whose thread's WaitCommEvent was forced to return
    cpc,                \* per caller: position in the API call it is making
    cop,                \* per caller: the call's locals
    roles               \* per handle: the roles the caller has registered

winVars == << handle_looper_info, dtp_index, csOwner, csCount, commMask, thr,
              pendingWake, cpc, cop, roles >>

VARIABLES
    \* ---- shared by the Unix threads ----
    platform,         \* the branch of the #if the build compiled
    mutexOwner,       \* holder of com_thread_params.mutex: "none", "data", "event"
    jvm_port          \* the global jvm_port: "null" until port_monitor stores the VM

sharedVars == << platform, mutexOwner, jvm_port >>

VARIABLES
    \* ---- data_looper ----
    dpc,              \* position of data_looper: none/start/init/wait/read/done
    data_init_done,   \* com_thread_params.data_init_done
    data_thread_exit, \* com_thread_params.data_thread_exit
    evfd,             \* com_thread_params.evfd: the saved wake descriptor, 0 if none
    attached,         \* data_looper is attached to the JVM
    openFds,          \* the open descriptors data_looper uses: the caller's port
                      \* and those the thread created and has not closed
    wakePending,      \* the wake descriptor was written and is readable
    evlist,           \* events / evlist: the array the wait call fills
    index,            \* data_looper local
    partialData,      \* data_looper local
    errorCount,       \* data_looper local
    final_buf,        \* data_looper local: cell -> byte, for the cells written or read
    acc,              \* the chunks the port returned since the last delivery
    transfers,        \* the reads that completed a transfer (ret > 0, errno 0)
    sinkLog,          \* the calls made to the sink, in order
    rxpos,            \* the next byte the port will return
    readsLeft,        \* reads that may still return data or an error
    wakesLeft,        \* wake-ups the port may still cause
    readableLeft,     \* wake-ups that may still report the port readable
    hardWakes,        \* wake-ups so far whose first event carried a link error
    reqAt,            \* where data_looper was when the wake descriptor was written
    rpc,              \* the registering caller: idle/waiting/returned
    rres,             \* the result the registering caller returned
    upc,              \* the unregistering caller: idle/flagged/done
    lastRead,         \* what the last call of read returned: ret and errno
    faultsLeft,       \* exceptions the sink may still raise
    waitRet           \* what the last call of epoll_wait / kevent returned

dataOwn == << dpc, data_init_done, data_thread_exit, evfd, attached, openFds,
              wakePending, evlist, index, partialData, errorCount, final_buf, acc,
              transfers, sinkLog, rxpos, readsLeft, wakesLeft, readableLeft,
              hardWakes, reqAt, rpc, rres, upc, lastRead, faultsLeft, waitRet >>

\* What only the wait and read steps of data_looper change.
dataAux == << lastRead, faultsLeft, waitRet >>

dataVars == << sharedVars, dataOwn >>

VARIABLES
    \* ---- event_looper ----
    epc,               \* position of event_looper: none/start/init/loop/done
    event_init_done,   \* com_thread_params.event_init_done
    event_thread_exit, \* com_thread_params.event_thread_exit
    jvm_event,         \* the global jvm_event
    eattached,         \* event_looper is attached to the JVM
    oldstate,          \* event_looper local (macOS)
    newstate,          \* event_looper local (macOS)
    eventLog,          \* the masks passed to insertInEventQueue, in order
    polled,            \* the line states TIOCMGET returned, in order
    cyclesLeft,        \* loop cycles the scenario still allows
    esig,              \* SIGUSR1 was sent to the thread and not yet handled
    efault,            \* the handler dereferenced a null jvm_port
    erpc,              \* the registering caller: idle/waiting/returned
    eupc               \* the unregistering caller: idle/done

evVars == << epc, event_init_done, event_thread_exit, jvm_event, eattached,
             oldstate, newstate, eventLog, polled, cyclesLeft, esig, efault,
             erpc, eupc >>

VARIABLES
    \* ---- port_monitor ----
    mpc,               \* per monitor: position of port_monitor:
                       \* none/init/loop/failed/done
    mattached,         \* per monitor: the thread is attached to the JVM
    pinfo,             \* per monitor: its struct port_info
    subs,              \* per monitor: the subscription objects it holds
    pm_info,           \* the global table of driver references: cell -> reference or 0
    pm_index,          \* the global index of the next free cell
    heap,              \* the driver references allocated so far, by address
    lastNotif,         \* the notification handled last
    lastCalls,         \* the calls of onPortMonitorEvent made while handling it
    enumCalls,         \* per monitor: the calls made at subscription time, -1 before
    notifsLeft,        \* notifications the scenario still allows
    msig,              \* per monitor: SIGUSR1 was sent and not yet handled
    mres               \* per monitor: what start_port_monitor returned:
                       \* none (not yet) / ok / error

monVars == << mpc, mattached, pinfo, subs, pm_info, pm_index, heap, lastNotif,
              lastCalls, enumCalls, notifsLeft, msig, mres >>

\* What an action of one subsystem leaves unchanged in the others.
notWin == << sharedVars, dataOwn, evVars, monVars >>
notData == << winVars, evVars, monVars >>
notEvent == << winVars, dataOwn, monVars >>
notMon == << winVars, dataOwn, evVars >>

vars == << winVars, sharedVars, dataOwn, evVars, monVars >>

NoThread == [pc |-> "none", init_done |-> 0]
NoCall == [fn |-> "none", h |-> 0, thread_exist |-> 0, slot |-> -1, ret |-> 0]

WinInit ==
    /\ handle_looper_info = [s \in Slots |-> ZeroParams]
    /\ dtp_index = 0
    /\ csOwner = 0
    /\ csCount = 0
    /\ commMask = [h \in Handles |-> 0]
    /\ thr = [s \in Slots |-> NoThread]
    /\ pendingWake = {}
    /\ cpc = [c \in Callers |-> "idle"]
    /\ cop = [c \in Callers |-> NoCall]
    /\ roles = [h \in Handles |-> {}]

(***************************************************************************)
(* The registry scan of setUpDataLooperThread / setUpEventLooperThread /   *)
(* destroy*: the first slot whose hComm equals the handle.                 *)
(***************************************************************************)
MatchingSlots(table, h) == {s \in Slots : table[s].hComm = h}

FirstSlot(table, h) ==
    CHOOSE s \in MatchingSlots(table, h) : \A t \in MatchingSlots(table, h) : s <= t

ThreadExist(table, h) == IF MatchingSlots(table, h) # {} THEN 1 ELSE 0

\* The threads blocked in WaitCommEvent on handle h: SetCommMask makes the wait return.
WaitersOn(h) == {s \in Slots : handle_looper_info[s].hComm = h /\ thr[s].pc = "wait"}

\* The bits a register call ORs into the current mask.
RoleBits(role) == IF role = "data" THEN EV_RXCHAR ELSE EventBits

\* A mask update that stores the requested role's bits alone.
UpdatedMaskRoleOnly(event_mask, role) == RoleBits(role)

UpdatedMask(event_mask, role) == BitOr(event_mask, RoleBits(role))

(***************************************************************************)
(* setUpDataLooperThread / setUpEventLooperThread: entry and registry scan *)
(***************************************************************************)
CallSetUp(c, h, role) ==
    /\ UNCHANGED notWin
    /\ cpc[c] = "idle"
    /\ role \notin roles[h]
    /\ cpc' = [cpc EXCEPT ![c] = "scanned"]
    /\ cop' = [cop EXCEPT ![c] =
                 [fn |-> role, h |-> h,
                  thread_exist |-> ThreadExist(handle_looper_info, h),
                  slot |-> -1, ret |-> 0]]
    /\ UNCHANGED << handle_looper_info, dtp_index, csOwner, csCount, commMask,
                    thr, pendingWake, roles >>

\* Control reaches the closing brace of a function returning jint: the
\* value the caller receives is whatever the return register holds, zero or
\* the non-zero result of the SetCommMask call made last.
UndefinedReturn == {0, 1}

\* thread_exist == 1: only the wait mask is updated.  The function has no
\* return statement on the success path.
UpdateMask(c) ==
    /\ UNCHANGED notWin
    /\ cpc[c] = "scanned"
    /\ cop[c].thread_exist = 1
    /\ \E ok \in BOOLEAN :
         IF ok
         THEN /\ commMask' = [commMask EXCEPT ![cop[c].h] = UpdatedMask(@, cop[c].fn)]
              /\ pendingWake' = pendingWake \cup WaitersOn(cop[c].h)
              /\ roles' = [roles EXCEPT ![cop[c].h] = @ \cup {cop[c].fn}]
              /\ \E g \in UndefinedReturn : cop' = [cop EXCEPT ![c].ret = g]
         ELSE /\ cop' = [cop EXCEPT ![c].ret = E_FAIL]
              /\ UNCHANGED << commMask, pendingWake, roles >>
    /\ cpc' = [cpc EXCEPT ![c] = "ret"]
    /\ UNCHANGED << handle_looper_info, dtp_index, csOwner, csCount, thr >>

(***************************************************************************)
(* setupLooperThread                                                       *)
(***************************************************************************)
\* EnterCriticalSection(&csmutex): blocks while another thread owns it.
SetupEnterBelow(c, limit) ==
    /\ UNCHANGED notWin
    /\ cpc[c] = "scanned"
    /\ cop[c].thread_exist = 0
    /\ dtp_index < limit
    /\ csCount < MaxCsDepth
    /\ csOwner \in {0, c}
    /\ csOwner' = c
    /\ csCount' = csCount + 1
    /\ cpc' = [cpc EXCEPT ![c] = "incs"]
    /\ UNCHANGED << handle_looper_info, dtp_index, commMask, thr, pendingWake,
                    cop, roles >>

\* The model follows the registry up to MaxSetups registrations.
SetupEnter(c) == SetupEnterBelow(c, MaxSetups)

\* The parameters stored for the new thread.
NewParams(h, role, ref) ==
    [hComm |-> h, looper_ref |-> ref,
     data_enabled |-> IF role = "data" THEN 1 ELSE 0,
     event_enabled |-> IF role = "event" THEN 1 ELSE 0,
     thread_exit |-> 0, thread_handle |-> 0]

\* Whether setupLooperThread leaves the critical section on this outcome.
LeavesCS(outcome) == outcome = "ok"

SetupBody(c) ==
    /\ UNCHANGED notWin
    /\ cpc[c] = "incs"
    /\ \E outcome \in {"ok", "no_ref", "no_thread"} :
         /\ IF outcome = "no_ref"
            THEN UNCHANGED << handle_looper_info, thr, dtp_index, roles >>
                 /\ cop' = [cop EXCEPT ![c].ret = E_FAIL]
            ELSE /\ handle_looper_info' =
                      [handle_looper_info EXCEPT ![dtp_index] =
                         IF outcome = "ok"
                         THEN [NewParams(cop[c].h, cop[c].fn, 1) EXCEPT
                                 !.thread_handle = dtp_index + 1]
                         ELSE NewParams(cop[c].h, cop[c].fn, 1)]
                 /\ IF outcome = "ok"
                    THEN /\ thr' = [thr EXCEPT ![dtp_index] = [pc |-> "init", init_done |-> 0]]
                         /\ dtp_index' = dtp_index + 1
                         /\ roles' = [roles EXCEPT ![cop[c].h] = @ \cup {cop[c].fn}]
                         /\ cop' = [cop EXCEPT ![c].ret = 0, ![c].slot = dtp_index]
                    ELSE /\ UNCHANGED << thr, dtp_index, roles >>
                         /\ cop' = [cop EXCEPT ![c].ret = E_FAIL]
         /\ IF LeavesCS(outcome)
            THEN /\ csCount' = csCount - 1
                 /\ csOwner' = IF csCount = 1 THEN 0 ELSE csOwner
            ELSE UNCHANGED << csOwner, csCount >>
    /\ cpc' = [cpc EXCEPT ![c] = "ret"]
    /\ UNCHANGED << commMask, pendingWake >>

(***************************************************************************)
(* destroyDataLooperThread / destroyEventLooperThread                      *)
(***************************************************************************)
\* DWORD a = 0; DWORD b = a & EV_CTS (data) / a & EV_RXCHAR (event).
OtherRoleProbe(role) == BitAnd(0, IF role = "data" THEN EV_CTS ELSE EV_RXCHAR)

\* if((b & event_mask) == 1): the other listener is taken to exist.
OtherListenerExists(role, event_mask) == BitAnd(OtherRoleProbe(role), event_mask) = 1

\* The mask left for the remaining role.
NarrowedMask(role) == IF role = "data" THEN EventBits ELSE EV_RXCHAR

CallDestroy(c, h, role) ==
    /\ UNCHANGED notWin
    /\ cpc[c] = "idle"
    /\ role \in roles[h]
    /\ IF OtherListenerExists(role, commMask[h])
       THEN \E ok \in BOOLEAN :
              IF ok
              THEN /\ commMask' = [commMask EXCEPT ![h] = NarrowedMask(role)]
                   /\ pendingWake' = pendingWake \cup WaitersOn(h)
                   /\ roles' = [roles EXCEPT ![h] = @ \ {role}]
                   /\ cop' = [cop EXCEPT ![c] = [NoCall EXCEPT !.fn = "destroy", !.h = h]]
                   /\ UNCHANGED handle_looper_info
              ELSE /\ cop' = [cop EXCEPT ![c] =
                                [NoCall EXCEPT !.fn = "destroy", !.h = h, !.ret = E_FAIL]]
                   /\ UNCHANGED << commMask, pendingWake, roles, handle_looper_info >>
       ELSE /\ handle_looper_info' =
                 IF MatchingSlots(handle_looper_info, h) # {}
                 THEN [handle_looper_info EXCEPT
                         ![FirstSlot(handle_looper_info, h)].thread_exit = 1]
                 ELSE handle_looper_info
            /\ commMask' = [commMask EXCEPT ![h] = EV_BREAK]
            /\ pendingWake' = pendingWake \cup WaitersOn(h)
            /\ roles' = [roles EXCEPT ![h] = @ \ {role}]
            /\ cop' = [cop EXCEPT ![c] = [NoCall EXCEPT !.fn = "destroy", !.h = h]]
    /\ cpc' = [cpc EXCEPT ![c] = "ret"]
    /\ UNCHANGED << dtp_index, csOwner, csCount, thr >>

\* The API call returns to the managed caller.
Return(c) ==
    /\ UNCHANGED notWin
    /\ cpc[c] = "ret"
    /\ cpc' = [cpc EXCEPT ![c] = "idle"]
    /\ cop' = [cop EXCEPT ![c] = NoCall]
    /\ UNCHANGED << handle_looper_info, dtp_index, csOwner, csCount, commMask,
                    thr, pendingWake, roles >>

(***************************************************************************)
(* The listener thread event_data_looper that setupLooperThread spawns.    *)
(* Its body is not part of the sources at hand; it follows the listener    *)
(* loop of the specification: one-time setup that reports through          *)
(* init-done under the shared mutex, then wait / check exit flag.          *)
(***************************************************************************)
\* The mask the new thread waits for, from its enabled roles.
InitialMask(p) ==
    BitOr(IF p.data_enabled = 1 THEN EV_RXCHAR ELSE 0,
          IF p.event_enabled = 1 THEN EventBits ELSE 0)

ThreadInit(s) ==
    /\ UNCHANGED notWin
    /\ thr[s].pc = "init"
    /\ csOwner = 0
    /\ \E ok \in BOOLEAN :
         IF ok
         THEN /\ thr' = [thr EXCEPT ![s] = [pc |-> "wait", init_done |-> 1]]
              /\ commMask' = [commMask EXCEPT ![handle_looper_info[s].hComm] =
                                BitOr(@, InitialMask(handle_looper_info[s]))]
         ELSE /\ thr' = [thr EXCEPT ![s] = [pc |-> "done", init_done |-> E_FAIL]]
              /\ UNCHANGED commMask
    /\ UNCHANGED << handle_looper_info, dtp_index, csOwner, csCount, pendingWake,
                    cpc, cop, roles >>

\* WaitCommEvent returned: the thread checks its exit flag.
ThreadWake(s) ==
    /\ UNCHANGED notWin
    /\ thr[s].pc = "wait"
    /\ s \in pendingWake
    /\ pendingWake' = pendingWake \ {s}
    /\ thr' = [thr EXCEPT ![s].pc =
                 IF handle_looper_info[s].thread_exit = 1 THEN "done" ELSE "wait"]
    /\ UNCHANGED << handle_looper_info, dtp_index, csOwner, csCount, commMask,
                    cpc, cop, roles >>

\* One step of the registry with the API calls made by the callers in CS.
WinStep(CS) ==
    \/ \E c \in CS, h \in Handles, role \in {"data", "event"} : CallSetUp(c, h, role)
    \/ \E c \in CS : UpdateMask(c)
    \/ \E c \in CS : SetupEnter(c)
    \/ \E c \in CS : SetupBody(c)
    \/ \E c \in CS, h \in Handles, role \in {"data", "event"} : CallDestroy(c, h, role)
    \/ \E c \in CS : Return(c)
    \/ \E s \in Slots : ThreadInit(s)
    \/ \E s \in Slots : ThreadWake(s)

\* Calls from concurrent caller threads.
WinNext == WinStep(Callers)

\* The handle of a port opened anew, which is in no cell of the table.  Every
\* completed setupLooperThread call raises dtp_index or the depth at which
\* csmutex stays held, so their sum numbers the calls.
FreshHandle == NumHandles + 1 + dtp_index + csCount

\* A register call for a port that was never registered before: the scan
\* finds no cell with its handle.
CallSetUpFresh(c, role) ==
    /\ UNCHANGED notWin
    /\ cpc[c] = "idle"
    /\ cpc' = [cpc EXCEPT ![c] = "scanned"]
    /\ cop' = [cop EXCEPT ![c] =
                 [fn |-> role, h |-> FreshHandle,
                  thread_exist |-> ThreadExist(handle_looper_info, FreshHandle),
                  slot |-> -1, ret |-> 0]]
    /\ UNCHANGED << handle_looper_info, dtp_index, csOwner, csCount, commMask,
                    thr, pendingWake, roles >>

\* One caller registers a data listener on one new port after the other for
\* as long as the process runs, up to the first store past the table.  Of
\* handle_looper_info the model keeps the first TableSize cells, and of the
\* wait masks those of Handles; a store to another cell or mask changes
\* neither.
TableNext ==
    \/ CallSetUpFresh(1, "data")
    \/ SetupEnterBelow(1, MAX_NUM_THREADS + 1)
    \/ SetupBody(1)
    \/ Return(1)

\* Calls made one after the other by a single caller thread.
WinSeqNext == WinStep({1})

(***************************************************************************)
(* Unix data listener: data_looper (unix_like_serial_lib.c)                *)
(***************************************************************************)
\* sizeof(buffer) and sizeof(final_buf).
BufferSize == 1024
FinalBufSize == BufferSize * 3

\* Wake-ups with a link error after which the sink is told.
ErrorThreshold == 100

\* errno of an interrupted system call.
EINTR == 4

\* errno values a failing read / a failing descriptor creation may leave.
ReadErrnos == {5, 11}
InitErrnos == {24}

\* Bounds of the data listener model: the longest read the port returns,
\* the read calls that return data or fail, the wake-ups the port causes,
\* and the wake-ups of the error-throttling scenario.
MaxReadLen == 3
MaxEdge == 8
MaxReads == 3
MaxWakes == 2
MaxErrWakes == 250
MaxLiveReads == 2
MaxLiveWakes == 1

\* Bounds of the scenario in which the sink raises exceptions.
MaxFaultReads == 1
MaxFaultWakes == 1
MaxFaults == 1

ReadLens == 1..(IF MaxReadLen < BufferSize THEN MaxReadLen ELSE BufferSize)

\* Values an uninitialised cell of final_buf may hold.
Garbage == {0, 255}

Platforms == {"linux", "macos"}

\* The state the Unix threads share, before any of them is started.
SharedInit(pfs, jps) ==
    /\ platform \in pfs
    /\ mutexOwner = "none"
    /\ jvm_port \in jps

NoEvent == [ident |-> "none", flags |-> {}, data |-> 0]

\* No call of read was made yet.
NoRead == [ret |-> 0, errno |-> 0]

\* ssize_t ret = -1: no call of epoll_wait / kevent was made yet.
NoWait == -1

\* The state at thread creation; the budgets are the scenario's.
DataInitFaults(reads, wakes, readable, faults) ==
    /\ lastRead = NoRead
    /\ faultsLeft = faults
    /\ waitRet = NoWait
    /\ dpc = "none"
    /\ data_init_done = 0
    /\ data_thread_exit = 0
    /\ evfd = 0
    /\ attached = FALSE
    /\ openFds = {"port"}
    /\ wakePending = FALSE
    /\ evlist = << NoEvent, NoEvent >>
    /\ index = 0
    /\ partialData = -1
    /\ errorCount = 0
    /\ final_buf = << >>
    /\ acc = << >>
    /\ transfers = 0
    /\ sinkLog = << >>
    /\ rxpos = 0
    /\ readsLeft = reads
    /\ wakesLeft = wakes
    /\ readableLeft = readable
    /\ hardWakes = 0
    /\ reqAt = "none"
    /\ rpc = "idle"
    /\ rres = 0
    /\ upc = "idle"

\* A scenario in which the sink raises no exception.
DataInitWith(reads, wakes, readable) == DataInitFaults(reads, wakes, readable, 0)

\* A call of the sink: insertInDataQueue(bytes) or insertInDataErrorQueue(code).
\* chunks and at are bookkeeping: the chunks the port returned for the
\* transfer, one per read, and the number of link-error wake-ups at the time
\* of the call.  fault tells whether the sink raised an exception in the
\* call, pending whether the exception is still pending when the thread goes
\* on.
DataCall(bytes, chunks) ==
    [k |-> "data", bytes |-> bytes, chunks |-> chunks, code |-> 0, src |-> "read", at |-> 0,
     fault |-> FALSE, pending |-> FALSE]
ErrorCall(code, src, at) ==
    [k |-> "error", bytes |-> << >>, chunks |-> << >>, code |-> code, src |-> src, at |-> at,
     fault |-> FALSE, pending |-> FALSE]

\* Whether the sink raises an exception in a call.
Faults(budget) == IF budget > 0 THEN BOOLEAN ELSE {FALSE}

\* A faulty LOGE: it describes the exception and leaves it pending.
LOGEDescribeOnly(pending) == pending

\* LOGE: ExceptionDescribe, ExceptionClear.  The result tells whether an
\* exception is pending afterwards.
LOGE(pending) == FALSE

\* if((*env)->ExceptionOccurred(env)) { LOGE(env); } after a call of the sink.
AfterSinkCall(pending) == IF pending THEN LOGE(pending) ELSE pending

\* The call as the thread leaves it when the sink raised an exception or not.
SinkCall(call, fault) == [call EXCEPT !.fault = fault, !.pending = AfterSinkCall(fault)]

(***************************************************************************)
(* The registering and unregistering callers.  Their code (the Unix JNI    *)
(* entry points) is not part of the sources at hand; they follow the       *)
(* specification: register spawns the thread and blocks until init-done    *)
(* is no longer pending; unregister sets the exit flag, then writes the    *)
(* wake descriptor.                                                        *)
(***************************************************************************)
DataRegister ==
    /\ UNCHANGED notData
    /\ UNCHANGED dataAux
    /\ rpc = "idle"
    /\ dpc = "none"
    /\ rpc' = "waiting"
    /\ dpc' = "start"
    /\ UNCHANGED << platform, jvm_port, data_init_done, data_thread_exit, evfd, mutexOwner,
                    attached, openFds, wakePending, evlist, index, partialData,
                    errorCount, final_buf, acc, transfers, sinkLog, rxpos,
                    readsLeft, wakesLeft, readableLeft, hardWakes, reqAt, rres, upc >>

DataRegisterReturn ==
    /\ UNCHANGED notData
    /\ UNCHANGED dataAux
    /\ rpc = "waiting"
    /\ mutexOwner = "none"
    /\ data_init_done # 0
    /\ rpc' = "returned"
    /\ rres' = IF data_init_done = 1 THEN 0 ELSE data_init_done
    /\ UNCHANGED << platform, jvm_port, dpc, data_init_done, data_thread_exit, evfd,
                    mutexOwner, attached, openFds, wakePending, evlist, index,
                    partialData, errorCount, final_buf, acc, transfers, sinkLog,
                    rxpos, readsLeft, wakesLeft, readableLeft, hardWakes, reqAt, upc >>

DataUnregisterFlag ==
    /\ UNCHANGED notData
    /\ UNCHANGED dataAux
    /\ rpc = "returned"
    /\ rres = 0
    /\ upc = "idle"
    /\ upc' = "flagged"
    /\ data_thread_exit' = 1
    /\ UNCHANGED << platform, jvm_port, dpc, data_init_done, evfd, mutexOwner, attached,
                    openFds, wakePending, evlist, index, partialData, errorCount,
                    final_buf, acc, transfers, sinkLog, rxpos, readsLeft,
                    wakesLeft, readableLeft, hardWakes, reqAt, rpc, rres >>

DataUnregisterWake ==
    /\ UNCHANGED notData
    /\ UNCHANGED dataAux
    /\ upc = "flagged"
    /\ upc' = "done"
    /\ wakePending' = TRUE
    /\ reqAt' = dpc
    /\ UNCHANGED << platform, jvm_port, dpc, data_init_done, data_thread_exit, evfd,
                    mutexOwner, attached, openFds, evlist, index, partialData,
                    errorCount, final_buf, acc, transfers, sinkLog, rxpos,
                    readsLeft, wakesLeft, readableLeft, hardWakes, rpc, rres >>

(***************************************************************************)
(* data_looper: initialisation, lines 134-291                              *)
(***************************************************************************)
\* pthread_mutex_lock(params->mutex).
DataLock ==
    /\ UNCHANGED notData
    /\ UNCHANGED dataAux
    /\ dpc = "start"
    /\ mutexOwner = "none"
    /\ mutexOwner' = "data"
    /\ dpc' = "init"
    /\ UNCHANGED << platform, jvm_port, data_init_done, data_thread_exit, evfd, attached,
                    openFds, wakePending, evlist, index, partialData, errorCount,
                    final_buf, acc, transfers, sinkLog, rxpos, readsLeft,
                    wakesLeft, readableLeft, hardWakes, reqAt, rpc, rres, upc >>

\* The steps of the initialisation that can fail, in program order.
InitSteps(pf) ==
    IF pf = "linux"
    THEN << "attach", "class", "mid", "mide", "eventfd", "epoll_create",
            "epoll_ctl_port", "epoll_ctl_exit" >>
    ELSE << "attach", "class", "mid", "mide", "pipe", "kqueue" >>

InitOutcomes(pf) == {InitSteps(pf)[i] : i \in 1..Len(InitSteps(pf))} \cup {"ok"}

\* The descriptors data_looper creates.
AuxFds(pf) == IF pf = "linux" THEN {"evfd", "epfd"} ELSE {"pipe0", "pipe1", "kq"}

\* A faulty report: success leaves data_init_done pending.
InitDoneValuePendingOnSuccess(outcome, errno) ==
    IF outcome = "ok" THEN 0
    ELSE IF outcome \in {"attach", "class", "mid", "mide"} THEN -240
    ELSE -1 * errno

\* A faulty report: a failed system call stores errno as it is.
InitDoneValuePositive(outcome, errno) ==
    IF outcome = "ok" THEN 1
    ELSE IF outcome \in {"attach", "class", "mid", "mide"} THEN -240
    ELSE errno

\* The value data_init_done gets when the initialisation ends with `outcome`.
InitDoneValue(outcome, errno) ==
    IF outcome = "ok" THEN 1
    ELSE IF outcome \in {"attach", "class", "mid", "mide"} THEN -240
    ELSE -1 * errno

\* The descriptors the initialisation has created when it ends with `outcome`.
CreatedByInit(pf, outcome) ==
    IF pf = "linux"
    THEN (IF outcome \in {"attach", "class", "mid", "mide", "eventfd"} THEN {}
          ELSE IF outcome = "epoll_create" THEN {"evfd"}
          ELSE {"evfd", "epfd"})
    ELSE (IF outcome \in {"attach", "class", "mid", "mide", "pipe"} THEN {}
          ELSE IF outcome = "kqueue" THEN {"pipe0", "pipe1"}
          ELSE {"pipe0", "pipe1", "kq"})

\* A faulty failure path: it closes nothing.
ClosedByInitNothing(pf, outcome) == {}

\* The descriptors the failure path of `outcome` closes.
ClosedByInit(pf, outcome) ==
    IF pf = "linux"
    THEN (IF outcome = "epoll_create" THEN {"evfd"}
          ELSE IF outcome \in {"epoll_ctl_port", "epoll_ctl_exit"} THEN {"epfd", "evfd"}
          ELSE {})
    ELSE (IF outcome = "kqueue" THEN {"pipe0", "pipe1"} ELSE {})

\* The descriptors left open when the initialisation ends with `outcome`.
FdsAfterInit(pf, outcome) == CreatedByInit(pf, outcome) \ ClosedByInit(pf, outcome)

\* A faulty exit path: it closes the port as well.
ClosedOnExitWithPort(pf) == AuxFds(pf) \cup {"port"}

\* The descriptors the thread closes when it is asked to exit.
ClosedOnExit(pf) == AuxFds(pf)

\* The saved wake descriptor (params->evfd) when the initialisation ends.
EvfdAfterInit(pf, outcome) ==
    IF pf = "linux"
    THEN (IF outcome \in {"attach", "class", "mid", "mide", "eventfd"} THEN 0 ELSE 1)
    ELSE (IF outcome \in {"attach", "class", "mid", "mide", "pipe"} THEN 0 ELSE 1)

\* What the second entry of the event array may hold before a wait call
\* filled it: zero on Linux, where the array comes from calloc; whatever the
\* stack held on macOS, the wake descriptor's number included.
UnfilledEntries(pf) ==
    IF pf = "linux" THEN {NoEvent}
    ELSE {NoEvent, [ident |-> "wake", flags |-> {}, data |-> 0]}

DataInit ==
    /\ UNCHANGED notData
    /\ UNCHANGED dataAux
    /\ dpc = "init"
    /\ \E outcome \in InitOutcomes(platform), errno \in InitErrnos :
         /\ data_init_done' = InitDoneValue(outcome, errno)
         /\ openFds' = openFds \cup FdsAfterInit(platform, outcome)
         /\ evfd' = EvfdAfterInit(platform, outcome)
         /\ attached' = (outcome = "ok")
         /\ dpc' = IF outcome = "ok" THEN "wait" ELSE "done"
    /\ \E second \in UnfilledEntries(platform) : evlist' = << NoEvent, second >>
    /\ mutexOwner' = "none"
    /\ UNCHANGED << platform, jvm_port, data_thread_exit, wakePending, index,
                    partialData, errorCount, final_buf, acc, transfers, sinkLog,
                    rxpos, readsLeft, wakesLeft, readableLeft, hardWakes, reqAt, rpc,
                    rres, upc >>

(***************************************************************************)
(* data_looper: the wait, lines 294-345 and 424-454                        *)
(***************************************************************************)
\* What the wait call may report for the port descriptor.
PortEvents(pf) ==
    IF pf = "linux"
    THEN {[ident |-> "port", flags |-> f, data |-> 0] :
             f \in (SUBSET {"EPOLLIN", "EPOLLERR", "EPOLLHUP"}) \ {{}}}
    ELSE {[ident |-> "port", flags |-> {}, data |-> 0]}
         \cup {[ident |-> "port", flags |-> {"EV_ERROR"}, data |-> e] : e \in ReadErrnos}

\* What it reports for the wake descriptor once that was written.
WakeEvent(pf) ==
    [ident |-> "wake", flags |-> IF pf = "linux" THEN {"EPOLLIN"} ELSE {}, data |-> 0]

\* The event reports the port readable.
ReportsReadable(pf, e) ==
    IF pf = "linux" THEN "EPOLLIN" \in e.flags ELSE "EV_ERROR" \notin e.flags

\* The event lists one return of epoll_wait / kevent may hold: every ready
\* descriptor, in either order.
ReadyLists(portEvents, pf, wake, portBudget, readableBudget) ==
    LET pe == IF portBudget > 0
              THEN {e \in portEvents : ReportsReadable(pf, e) => readableBudget > 0}
              ELSE {}
    IN  (IF wake THEN {<< WakeEvent(pf) >>} ELSE {})
        \cup (IF wake
              THEN {<< e, WakeEvent(pf) >> : e \in pe} \cup {<< WakeEvent(pf), e >> : e \in pe}
              ELSE {<< e >> : e \in pe})

\* The array after the call stored `got` in its first Len(got) entries.
Filled(old, got) == IF Len(got) = 2 THEN got ELSE << got[1], old[2] >>

\* A faulty exit check: it looks at the second entry of the event list only.
WakeReportedSecondOnly(ev) == ev[2].ident = "wake"

\* (events[0].data.fd == evfd) || (events[1].data.fd == evfd), and the
\* kevent form with pipe1[0].
WakeReported(ev) == ev[1].ident = "wake" \/ ev[2].ident = "wake"

\* A faulty exit check: the thread never leaves its loop.
ExitRequestedNever(ev, exitFlag) == FALSE

\* The thread leaves its loop: the wake descriptor is reported and the exit
\* flag is 1.
ExitRequested(ev, exitFlag) == WakeReported(ev) /\ exitFlag = 1

\* The condition under which the port is read.
ReadCondition(pf, ev) ==
    IF pf = "linux"
    THEN "EPOLLIN" \in ev[1].flags /\ "EPOLLERR" \notin ev[1].flags
    ELSE ev[1].ident = "port" /\ "EV_ERROR" \notin ev[1].flags

\* The condition under which the error counter is advanced.
LinkError(pf, ev) ==
    IF pf = "linux"
    THEN ev[1].flags \cap {"EPOLLERR", "EPOLLHUP"} # {}
    ELSE "EV_ERROR" \in ev[1].flags

\* The code passed to insertInDataErrorQueue at the threshold.
LinkErrorCode(pf, ev) == IF pf = "linux" THEN ev[1].flags ELSE ev[1].data

\* Whether the error counter has reached the threshold.
AtThreshold(count) == count = ErrorThreshold

\* The first reported event carries a hard link error (EPOLLERR / EPOLLHUP,
\* EV_ERROR).
CarriesHardError(pf, e) ==
    IF pf = "linux" THEN e.flags \cap {"EPOLLERR", "EPOLLHUP"} # {}
    ELSE "EV_ERROR" \in e.flags

\* The port events of the error-throttling scenario.
HardEvents(pf) == {e \in PortEvents(pf) : CarriesHardError(pf, e)}

\* What a failing or empty call of epoll_wait / kevent returns.
WaitFailures == {-1, 0}

\* A faulty test of the result: only a negative result restarts the loop.
RetryWaitNegativeOnly(ret) == ret < 0

\* if(ret <= 0) continue; after epoll_wait / kevent.
RetryWait(ret) == ret <= 0

\* The loop body after the wait, lines 313-454, run on the event array ev:
\* the thread leaves, goes on to read, or counts a link error.
AfterWait(ev, f) ==
    /\ IF ExitRequested(ev, data_thread_exit)
       THEN /\ openFds' = openFds \ ClosedOnExit(platform)
            /\ attached' = FALSE
            /\ dpc' = "done"
            /\ UNCHANGED << errorCount, sinkLog >>
       ELSE IF ReadCondition(platform, ev)
       THEN /\ dpc' = "read"
            /\ UNCHANGED << openFds, attached, errorCount, sinkLog >>
       ELSE IF LinkError(platform, ev)
       THEN /\ IF AtThreshold(errorCount + 1)
               THEN /\ sinkLog' = Append(sinkLog,
                           SinkCall(ErrorCall(LinkErrorCode(platform, ev), "throttle",
                                              hardWakes'), f))
                    /\ errorCount' = 0
               ELSE /\ errorCount' = errorCount + 1
                    /\ UNCHANGED sinkLog
            /\ UNCHANGED << dpc, openFds, attached >>
       ELSE UNCHANGED << dpc, openFds, attached, errorCount, sinkLog >>
    /\ faultsLeft' = IF f /\ Len(sinkLog') > Len(sinkLog)
                     THEN faultsLeft - 1 ELSE faultsLeft

\* epoll_wait / kevent returned ret <= 0: the loop continues, the event
\* array is as the call before left it.
DataWaitError ==
    /\ UNCHANGED notData
    /\ dpc = "wait"
    /\ UNCHANGED << platform, jvm_port, data_init_done, data_thread_exit, evfd, mutexOwner,
                    wakePending, evlist, index, partialData, final_buf, acc, transfers,
                    rxpos, readsLeft, wakesLeft, readableLeft, hardWakes, reqAt, rpc,
                    rres, upc, lastRead >>
    /\ \E r \in WaitFailures, f \in Faults(faultsLeft) :
         /\ waitRet' = r
         /\ IF RetryWait(r)
            THEN UNCHANGED << dpc, openFds, attached, errorCount, sinkLog, faultsLeft >>
            ELSE AfterWait(evlist, f)

\* epoll_wait / kevent returned events.
DataWakeOn(portEvents) ==
    /\ UNCHANGED notData
    /\ dpc = "wait"
    /\ \E got \in ReadyLists(portEvents, platform, wakePending, wakesLeft, readableLeft),
          f \in Faults(faultsLeft) :
         LET ev == Filled(evlist, got) IN
         /\ waitRet' = Len(got)
         /\ evlist' = ev
         /\ wakesLeft' = IF \E i \in 1..Len(got) : got[i].ident = "port"
                         THEN wakesLeft - 1 ELSE wakesLeft
         /\ readableLeft' = IF \E i \in 1..Len(got) :
                                   got[i].ident = "port" /\ ReportsReadable(platform, got[i])
                            THEN readableLeft - 1 ELSE readableLeft
         /\ hardWakes' = IF CarriesHardError(platform, got[1])
                         THEN hardWakes + 1 ELSE hardWakes
         /\ AfterWait(ev, f)
    /\ UNCHANGED << platform, jvm_port, data_init_done, data_thread_exit, evfd, mutexOwner,
                    wakePending, index, partialData, final_buf, acc, transfers,
                    rxpos, readsLeft, reqAt, rpc, rres, upc, lastRead >>

DataWake == DataWakeOn(PortEvents(platform))

\* A wake-up of the error-throttling scenario: the port reports a link error.
ThrottleWake == DataWakeOn(HardEvents(platform))

(***************************************************************************)
(* data_looper: the read loop and the delivery, lines 354-422              *)
(***************************************************************************)
\* The bytes the port returns next.
StreamBytes(pos, n) == [i \in 1..n |-> (pos + i - 1) % 256]

\* What read(fd, buffer, sizeof(buffer)) may return, with errno.
ReadOutcomes(budget) ==
    {[ret |-> 0, errno |-> 0]}
    \cup (IF budget > 0
          THEN {[ret |-> n, errno |-> e] : n \in ReadLens, e \in {0, EINTR}}
               \cup {[ret |-> -1, errno |-> e] : e \in ReadErrnos \cup {EINTR}}
          ELSE {})

\* The values of i in for(i = index; i < ret; i++).
CopiedIndices(idx, ret) == idx..(ret - 1)

\* for(i = index; i < ret; i++) final_buf[i] = buffer[i];
CopyPartial(fb, buf, idx, ret) ==
    [i \in (DOMAIN fb) \cup CopiedIndices(idx, ret) |->
        IF i \in CopiedIndices(idx, ret) THEN buf[i + 1] ELSE fb[i]]

\* The length handed to NewByteArray / SetByteArrayRegion after partial reads.
AssembledLength(idx, ret) == idx + ret

\* A faulty update of index: it advances by the bytes read.
IndexAfterPartialSum(idx, ret) == idx + ret

\* The value of index after a partial read of ret bytes.
IndexAfterPartial(idx, ret) == ret

\* A faulty retry test: every failed read is retried.
RetryReadAlways(errno) == TRUE

\* if(errno == EINTR) continue; after read returned a negative value.
RetryRead(errno) == errno = EINTR

\* A faulty delivery test: the sink is called after every read loop.
DeliversAfterReadAlways(data_available) == TRUE

\* if(data_available == 1) after the read loop: the sink's data entry point
\* is called.  The loop sets data_available to 0 before every read.
DeliversAfterRead(data_available) == data_available = 1

DataRead ==
    /\ UNCHANGED notData
    /\ dpc = "read"
    /\ \E r \in ReadOutcomes(readsLeft), f \in Faults(faultsLeft) :
         LET buf == StreamBytes(rxpos, r.ret) IN
         /\ lastRead' = r
         /\ readsLeft' = IF r = [ret |-> 0, errno |-> 0] THEN readsLeft ELSE readsLeft - 1
         /\ rxpos' = IF r.ret > 0 THEN rxpos + r.ret ELSE rxpos
         /\ IF r.ret > 0 /\ r.errno = 0
            THEN /\ IF partialData = 1
                    THEN LET fb == CopyPartial(final_buf, buf, index, r.ret)
                             n == AssembledLength(index, r.ret)
                             unwritten == (0..(n - 1)) \ DOMAIN fb
                         IN  \E g \in [unwritten -> Garbage] :
                               LET full == [i \in (DOMAIN fb) \cup unwritten |->
                                              IF i \in DOMAIN fb THEN fb[i] ELSE g[i]]
                               IN  /\ final_buf' = full
                                   /\ sinkLog' = Append(sinkLog,
                                         SinkCall(DataCall([i \in 1..n |-> full[i - 1]],
                                                           Append(acc, buf)), f))
                    ELSE /\ sinkLog' = Append(sinkLog,
                                          SinkCall(DataCall(buf, Append(acc, buf)), f))
                         /\ UNCHANGED final_buf
                 /\ acc' = << >>
                 /\ transfers' = transfers + 1
                 /\ dpc' = "wait"
                 /\ UNCHANGED << index, partialData >>
            ELSE IF r.ret > 0 /\ r.errno = EINTR
            THEN /\ final_buf' = CopyPartial(final_buf, buf, index, r.ret)
                 /\ index' = IndexAfterPartial(index, r.ret)
                 /\ partialData' = 1
                 /\ acc' = Append(acc, buf)
                 /\ UNCHANGED << dpc, sinkLog, transfers >>
            ELSE IF r.ret < 0
            THEN /\ IF RetryRead(r.errno)
                    THEN UNCHANGED << dpc, sinkLog >>
                    ELSE /\ sinkLog' = Append(sinkLog,
                                          SinkCall(ErrorCall(r.errno, "read", hardWakes), f))
                         /\ dpc' = "wait"
                 /\ UNCHANGED << final_buf, index, partialData, acc, transfers >>
            ELSE /\ dpc' = "wait"
                 /\ sinkLog' = IF DeliversAfterRead(0)
                               THEN Append(sinkLog, SinkCall(DataCall(<< >>, acc), f))
                               ELSE sinkLog
                 /\ UNCHANGED << final_buf, index, partialData, acc, transfers >>
         /\ faultsLeft' = IF f /\ Len(sinkLog') > Len(sinkLog)
                          THEN faultsLeft - 1 ELSE faultsLeft
    /\ UNCHANGED << platform, jvm_port, data_init_done, data_thread_exit, evfd, mutexOwner,
                    attached, openFds, wakePending, evlist, errorCount, wakesLeft, readableLeft,
                    hardWakes, reqAt, rpc, rres, upc, waitRet >>

\* The lengths read() returns in the scenario of the full-size buffer: the
\* MaxEdge shortest and the MaxEdge + 1 longest that fit the buffer.
AccumLens == (1..MaxEdge) \cup ((BufferSize - MaxEdge)..BufferSize)

\* The read loop, lines 354-414, followed in the lengths of its reads: a
\* complete read ends the loop, a read interrupted by a signal sets index
\* and the partial-pending flag and reads again.  The bytes copied and the
\* call of the sink are left out.
DataReadLengths ==
    /\ UNCHANGED notData
    /\ dpc = "read"
    /\ \E n \in AccumLens, e \in {0, EINTR} :
         /\ lastRead' = [ret |-> n, errno |-> e]
         /\ IF e = 0
            THEN /\ dpc' = "wait"
                 /\ UNCHANGED << index, partialData >>
            ELSE /\ index' = IndexAfterPartial(index, n)
                 /\ partialData' = 1
                 /\ UNCHANGED dpc
    /\ UNCHANGED << platform, jvm_port, data_init_done, data_thread_exit, evfd, mutexOwner,
                    attached, openFds, wakePending, evlist, errorCount, wakesLeft, readableLeft,
                    hardWakes, reqAt, rpc, rres, upc, waitRet, readsLeft, rxpos,
                    final_buf, sinkLog, acc, transfers, faultsLeft >>

\* The data listener reading buffers of the full size.
AccumNext ==
    \/ DataRegister
    \/ DataRegisterReturn
    \/ DataLock
    \/ DataInit
    \/ DataWake
    \/ DataReadLengths

\* The data listener with its registering and unregistering callers.
DataNext ==
    \/ DataRegister
    \/ DataRegisterReturn
    \/ DataUnregisterFlag
    \/ DataUnregisterWake
    \/ DataLock
    \/ DataInit
    \/ DataWaitError
    \/ DataWake
    \/ DataRead

\* The error-throttling scenario: the listener is never unregistered.
ThrottleNext ==
    \/ DataRegister
    \/ DataRegisterReturn
    \/ DataLock
    \/ DataInit
    \/ ThrottleWake
    \/ DataRead

(***************************************************************************)
(* event_looper, lines 475-624, and event_exit_signal_handler, 461-471     *)
(***************************************************************************)
\* The bits of the delivered mask: int CTS = 0x01; DSR = 0x02; DCD = 0x04; RI = 0x08.
CTS == 1
DSR == 2
DCD == 4
RI == 8

\* Bounds of the event listener model.
MaxCycles == 4

\* The modem lines TIOCMGET reports, and the line states the port takes.
Lines == {"TIOCM_CTS", "TIOCM_DSR", "TIOCM_CD", "TIOCM_RI"}
LineStates == {st \in SUBSET Lines : Cardinality(st) <= 1} \cup {Lines}

EventInitWith(cycles) ==
    /\ epc = "none"
    /\ event_init_done = 0
    /\ event_thread_exit = 0
    /\ jvm_event = "null"
    /\ eattached = FALSE
    /\ oldstate = 0
    /\ newstate = 0
    /\ eventLog = << >>
    /\ polled = << >>
    /\ cyclesLeft = cycles
    /\ esig = FALSE
    /\ efault = FALSE
    /\ erpc = "idle"
    /\ eupc = "idle"

\* The registering and unregistering callers follow the specification:
\* register spawns the thread and blocks until init-done is no longer
\* pending; unregister sets the exit flag and signals the thread.
EventRegister ==
    /\ UNCHANGED notEvent
    /\ erpc = "idle"
    /\ epc = "none"
    /\ erpc' = "waiting"
    /\ epc' = "start"
    /\ UNCHANGED << sharedVars, event_init_done, event_thread_exit, jvm_event,
                    eattached, oldstate, newstate, eventLog, polled, cyclesLeft,
                    esig, efault, eupc >>

EventRegisterReturn ==
    /\ UNCHANGED notEvent
    /\ erpc = "waiting"
    /\ mutexOwner = "none"
    /\ event_init_done # 0
    /\ erpc' = "returned"
    /\ UNCHANGED << sharedVars, epc, event_init_done, event_thread_exit, jvm_event,
                    eattached, oldstate, newstate, eventLog, polled, cyclesLeft,
                    esig, efault, eupc >>

EventUnregister ==
    /\ UNCHANGED notEvent
    /\ erpc = "returned"
    /\ event_init_done = 1
    /\ eupc = "idle"
    /\ eupc' = "done"
    /\ event_thread_exit' = 1
    /\ esig' = TRUE
    /\ UNCHANGED << sharedVars, epc, event_init_done, jvm_event, eattached,
                    oldstate, newstate, eventLog, polled, cyclesLeft, efault, erpc >>

\* Lines 476-495: the locals are initialised, jvm_event is stored, the mutex
\* is taken.
EventLock ==
    /\ UNCHANGED notEvent
    /\ epc = "start"
    /\ mutexOwner = "none"
    /\ mutexOwner' = "event"
    /\ jvm_event' = "jvm"
    /\ oldstate' = 0
    /\ newstate' = 0
    /\ epc' = "init"
    /\ UNCHANGED << platform, jvm_port, event_init_done, event_thread_exit,
                    eattached, eventLog, polled, cyclesLeft, esig, efault, erpc, eupc >>

\* The steps of the initialisation that can fail, in program order.
EventInitSteps == << "attach", "class", "mid", "signal" >>

EventInitOutcomes == {EventInitSteps[i] : i \in 1..Len(EventInitSteps)} \cup {"ok"}

EventInitDoneValue(outcome) == IF outcome = "ok" THEN 1 ELSE -240

\* Lines 497-544.
EventInit ==
    /\ UNCHANGED notEvent
    /\ epc = "init"
    /\ \E outcome \in EventInitOutcomes :
         /\ event_init_done' = EventInitDoneValue(outcome)
         /\ eattached' = (outcome = "ok")
         /\ epc' = IF outcome = "ok" THEN "loop" ELSE "done"
    /\ mutexOwner' = "none"
    /\ UNCHANGED << platform, jvm_port, event_thread_exit, jvm_event, oldstate,
                    newstate, eventLog, polled, cyclesLeft, esig, efault, erpc, eupc >>

\* What ioctl(TIOCMIWAIT) and ioctl(TIOCMGET) return: 0, or -1 with errno set.
IoctlResults == {0, -1}

\* A faulty test: a failed ioctl does not end the cycle.
SkipsCycleNever(ret) == FALSE

\* if(ret < 0) continue; after each of the two ioctl calls.
SkipsCycle(ret) == ret < 0

\* A faulty delivery test: the sink is called only for a changed mask.
DeliversOnChange(pf, old, new) == new # old

\* A faulty decoding: the ring indicator is left out of the mask.
DecodeWithoutRI(lines_status) ==
    BitOr(BitOr(IF "TIOCM_CTS" \in lines_status THEN CTS ELSE 0,
                IF "TIOCM_DSR" \in lines_status THEN DSR ELSE 0),
          IF "TIOCM_CD" \in lines_status THEN DCD ELSE 0)

\* Lines 581-597: the mask built from the line state.
Decode(lines_status) ==
    LET cts == IF "TIOCM_CTS" \in lines_status THEN 1 ELSE 0
        dsr == IF "TIOCM_DSR" \in lines_status THEN 1 ELSE 0
        dcd == IF "TIOCM_CD" \in lines_status THEN 1 ELSE 0
        ri  == IF "TIOCM_RI" \in lines_status THEN 1 ELSE 0
        e1 == IF cts = 1 THEN BitOr(0, CTS) ELSE 0
        e2 == IF dsr = 1 THEN BitOr(e1, DSR) ELSE e1
        e3 == IF dcd = 1 THEN BitOr(e2, DCD) ELSE e2
    IN  IF ri = 1 THEN BitOr(e3, RI) ELSE e3

\* A faulty delivery condition: every cycle delivers.
DeliversAlways(pf, old, new) == TRUE

\* Whether a cycle that decoded `new` calls the sink: always on Linux
\* (599-607), and if(newstate != oldstate) on macOS (608-620).
Delivers(pf, old, new) == IF pf = "linux" THEN TRUE ELSE new # old

\* One cycle of the loop, lines 548-621.  On Linux the cycle starts when
\* TIOCMIWAIT returns; on macOS when the 500 ms sleep ends.
EventCycle ==
    /\ UNCHANGED notEvent
    /\ epc = "loop"
    /\ cyclesLeft > 0
    /\ cyclesLeft' = cyclesLeft - 1
    /\ \E waitRes \in (IF platform = "linux" THEN IoctlResults ELSE {0}),
          getRes \in IoctlResults, got \in LineStates :
         IF SkipsCycle(waitRes) \/ SkipsCycle(getRes)
         THEN UNCHANGED << polled, eventLog, newstate, oldstate >>
         ELSE LET lines_status == IF getRes < 0 THEN {} ELSE got
                  event == Decode(lines_status) IN
              /\ polled' = IF getRes < 0 THEN polled ELSE Append(polled, lines_status)
              /\ eventLog' = IF Delivers(platform, oldstate, event)
                             THEN Append(eventLog, event) ELSE eventLog
              /\ newstate' = IF platform = "linux" THEN newstate ELSE event
              /\ oldstate' = IF platform = "linux" THEN oldstate
                             ELSE IF Delivers(platform, oldstate, event) THEN event
                             ELSE oldstate
    /\ UNCHANGED << sharedVars, epc, event_init_done, event_thread_exit, jvm_event,
                    eattached, esig, efault, erpc, eupc >>

\* event_exit_signal_handler runs on the thread: it detaches through the
\* global jvm_port, which only port_monitor stores, and ends the thread.  A
\* null jvm_port is dereferenced.
EventExitSignal ==
    /\ UNCHANGED notEvent
    /\ epc = "loop"
    /\ esig
    /\ esig' = FALSE
    /\ epc' = "done"
    /\ IF jvm_port = "null"
       THEN /\ efault' \in BOOLEAN
            /\ UNCHANGED eattached
       ELSE /\ eattached' = FALSE
            /\ UNCHANGED efault
    /\ UNCHANGED << sharedVars, event_init_done, event_thread_exit, jvm_event,
                    oldstate, newstate, eventLog, polled, cyclesLeft, erpc, eupc >>

EventNext ==
    \/ EventRegister
    \/ EventRegisterReturn
    \/ EventUnregister
    \/ EventLock
    \/ EventInit
    \/ EventCycle
    \/ EventExitSignal

(***************************************************************************)
(* The port presence monitor: port_monitor (762-997), device_added         *)
(* (712-754), device_removed (664-706), exitMonitor_signal_handler         *)
(* (628-659)                                                               *)
(***************************************************************************)
\* struct driver_ref* pm_info[2048].
PmInfoSize == 2048

\* Bounds of the monitor model.
NumMonitors == 1
MaxNotifs == 2
MaxBatch == 1

Monitors == 1..NumMonitors

\* The cells of pm_info the model can reach.
MaxRefs == (NumMonitors + MaxNotifs) * MaxBatch
PmCells == 0..((IF MaxRefs < PmInfoSize THEN MaxRefs ELSE PmInfoSize) - 1)

\* What stat(port_name) may return: success, or -1 with an errno.
StatOutcomes ==
    {"OK", "EACCES", "ELOOP", "ENAMETOOLONG", "ENOMEM", "ENOTDIR", "EOVERFLOW",
     "EFAULT", "ENOENT", "EIO"}

\* The errno values the removal branch only logs.
BenignErrnos ==
    {"EACCES", "ELOOP", "ENAMETOOLONG", "ENOMEM", "ENOTDIR", "EOVERFLOW", "EFAULT"}

\* A faulty removal branch: every failed stat counts as a removal.
RemovalOnAnyFailure(st) == st # "OK"

\* The removal branch calls the sink: stat failed, with none of the logged codes.
RemovalConfirmed(st) == st # "OK" /\ st \notin BenignErrnos

\* A struct port_info as malloc returned it.
NoPortInfo ==
    [thread_id |-> 0, data |-> 0, tempVal |-> 0, env |-> 0, mid |-> 0,
     notification_port |-> 0]

\* A notification as a monitor handles it: its kind, whether it is the call
\* made at subscription time, the result of stat, the number of services; and
\* a call of onPortMonitorEvent(code) on the sink of monitor m.
Notif(m, kind, synthetic, stat, n) ==
    [m |-> m, kind |-> kind, synthetic |-> synthetic, stat |-> stat, n |-> n]
NoNotif == Notif(0, "none", FALSE, "OK", 0)
PortCall(m, code) == [m |-> m, code |-> code]

MonInitOver(ms, notifs) ==
    /\ mpc = [m \in ms |-> "none"]
    /\ mattached = [m \in ms |-> FALSE]
    /\ pinfo = [m \in ms |-> NoPortInfo]
    /\ subs = [m \in ms |-> {}]
    /\ pm_info = [x \in PmCells |-> 0]
    /\ pm_index = 0
    /\ heap = << >>
    /\ lastNotif = NoNotif
    /\ lastCalls = << >>
    /\ enumCalls = [m \in ms |-> -1]
    /\ notifsLeft = notifs
    /\ msig = [m \in ms |-> FALSE]
    /\ mres = [m \in ms |-> "none"]

MonInitWith(notifs) == MonInitOver(Monitors, notifs)

\* start_port_monitor follows the specification: it allocates the monitor
\* context, points its back-pointer at the context itself, and creates the
\* thread, whose id it stores in the context.  The other fields are what
\* malloc returned.  port_monitor stores no result of its initialisation
\* where the caller could read it, and struct port_info has no member for
\* one: the call returns with the result of the thread creation.
MonStart(m) ==
    /\ UNCHANGED notMon
    /\ mpc[m] = "none"
    /\ mpc' = [mpc EXCEPT ![m] = "init"]
    /\ mres' = [mres EXCEPT ![m] = "ok"]
    /\ \E garbage \in {0, 1} :
         pinfo' = [pinfo EXCEPT ![m] =
                      [thread_id |-> m, data |-> m, tempVal |-> garbage, env |-> 0,
                       mid |-> 0, notification_port |-> 0]]
    /\ UNCHANGED << sharedVars, mattached, subs, pm_info, pm_index, heap, lastNotif,
                    lastCalls, enumCalls, notifsLeft, msig >>

\* stop_port_monitor follows the specification: it signals the thread.
MonStop(m) ==
    /\ UNCHANGED notMon
    /\ UNCHANGED mres
    /\ mpc[m] = "loop"
    /\ ~msig[m]
    /\ msig' = [msig EXCEPT ![m] = TRUE]
    /\ UNCHANGED << sharedVars, mpc, mattached, pinfo, subs, pm_info, pm_index,
                    heap, lastNotif, lastCalls, enumCalls, notifsLeft >>

\* The steps of port_monitor's initialisation that can fail, in program order.
MonInitSteps(pf) ==
    IF pf = "linux"
    THEN << "attach", "class", "mid", "udev_new", "monitor_new", "filter", "enable",
            "signal" >>
    ELSE << "attach", "class", "mid", "signal", "matching" >>

MonInitOutcomes(pf) == {MonInitSteps(pf)[i] : i \in 1..Len(MonInitSteps(pf))} \cup {"ok"}

\* The subscription objects the thread holds when the initialisation ends.
SubsAfterInit(pf, outcome) ==
    IF pf = "linux"
    THEN (IF outcome \in {"attach", "class", "mid", "udev_new"} THEN {}
          ELSE IF outcome = "monitor_new" THEN {"udev"}
          ELSE {"udev", "monitor"})
    ELSE (IF outcome = "ok" THEN {"notification_port", "run_loop_source", "iterator"}
          ELSE {})

\* Lines 944-947 and 968: the fields port_monitor stores in its context.
ContextSet(pi, outcome) ==
    IF outcome = "ok"
    THEN [pi EXCEPT !.env = 1, !.mid = 1, !.tempVal = 0, !.notification_port = 1]
    ELSE [pi EXCEPT !.env = 1, !.mid = 1, !.tempVal = 0]

\* A faulty device_added: it calls the sink at every invocation.
SinkOnAddedAlways(tempVal) == TRUE

\* if(refCon->tempVal != 0): device_added calls the sink.
SinkOnAdded(tempVal) == tempVal # 0

\* The value of tempVal when device_added returns.
TempValAfter(tempVal) == IF tempVal # 0 THEN tempVal ELSE 1

\* device_added(refCon, iterator) running on the thread of monitor m, the
\* iterator holding n services; pi is the contexts as the call finds them.
DeviceAdded(m, refCon, pi, n, synthetic) ==
    LET tv == pi[refCon].tempVal IN
    /\ lastNotif' = Notif(m, "added", synthetic, "OK", n)
    /\ lastCalls' = IF SinkOnAdded(tv) THEN << PortCall(m, 1) >> ELSE << >>
    /\ enumCalls' = IF synthetic
                    THEN [enumCalls EXCEPT ![m] = IF SinkOnAdded(tv) THEN 1 ELSE 0]
                    ELSE enumCalls
    /\ pinfo' = [pi EXCEPT ![refCon].tempVal = TempValAfter(tv)]
    /\ heap' = heap \o [i \in 1..n |->
                          [data |-> pi[refCon].data, by |-> m, live |-> TRUE,
                           subscribed |-> TRUE, terminated |-> FALSE,
                           enumerated |-> synthetic]]
    /\ pm_info' = [x \in PmCells |->
                     IF x \in pm_index..(pm_index + n - 1)
                     THEN Len(heap) + 1 + (x - pm_index) ELSE pm_info[x]]
    /\ pm_index' = pm_index + n

\* port_monitor up to its loop: lines 762-876 on Linux; lines 762-820 and
\* 944-983 on macOS, where it ends with the call of device_added for the
\* devices already present.
MonInit(m) ==
    /\ UNCHANGED notMon
    /\ UNCHANGED mres
    /\ mpc[m] = "init"
    /\ jvm_port' = "jvm"
    /\ \E outcome \in MonInitOutcomes(platform) :
         /\ mpc' = [mpc EXCEPT ![m] = IF outcome = "ok" THEN "loop" ELSE "failed"]
         /\ mattached' = [mattached EXCEPT ![m] = (outcome # "attach")]
         /\ subs' = [subs EXCEPT ![m] = SubsAfterInit(platform, outcome)]
         /\ IF platform = "macos" /\ outcome = "ok"
            THEN \E n \in 0..MaxBatch :
                   DeviceAdded(m, pinfo[m].data,
                               [pinfo EXCEPT ![m] = ContextSet(pinfo[m], outcome)], n, TRUE)
            ELSE /\ pinfo' = IF platform = "macos" /\ outcome \in {"signal", "matching"}
                             THEN [pinfo EXCEPT ![m] = ContextSet(pinfo[m], outcome)]
                             ELSE pinfo
                 /\ UNCHANGED << pm_info, pm_index, heap, lastNotif, lastCalls, enumCalls >>
    /\ UNCHANGED << platform, mutexOwner, notifsLeft, msig >>

\* What one return of select brings on Linux: nothing to receive, or a device
\* with its action, and for a removal the result of stat.
UdevEvents ==
    {[action |-> a, stat |-> "OK"] : a \in {"none", "add", "change"}}
    \cup {[action |-> "remove", stat |-> st] : st \in StatOutcomes}

\* A faulty action test: whatever is not a removal is reported as an addition.
UdevSinkCodeAddElse(action, st) ==
    IF action = "remove" THEN (IF RemovalConfirmed(st) THEN 2 ELSE 0)
    ELSE IF action = "none" THEN 0
    ELSE 1

\* The code the Linux loop passes to the sink, 0 for no call: lines 894-934.
UdevSinkCode(action, st) ==
    IF action = "add" THEN 1
    ELSE IF action = "remove" /\ RemovalConfirmed(st) THEN 2
    ELSE 0

NotifKind(action) ==
    IF action = "add" THEN "added"
    ELSE IF action = "remove" THEN "removed"
    ELSE IF action = "change" THEN "other" ELSE "none"

\* One iteration of the Linux loop, lines 878-937.
MonUdevEvent(m) ==
    /\ UNCHANGED notMon
    /\ UNCHANGED mres
    /\ platform = "linux"
    /\ mpc[m] = "loop"
    /\ notifsLeft > 0
    /\ notifsLeft' = notifsLeft - 1
    /\ \E ev \in UdevEvents :
         /\ lastNotif' = Notif(m, NotifKind(ev.action), FALSE, ev.stat, 1)
         /\ lastCalls' = IF UdevSinkCode(ev.action, ev.stat) # 0
                         THEN << PortCall(m, UdevSinkCode(ev.action, ev.stat)) >>
                         ELSE << >>
    /\ UNCHANGED << sharedVars, mpc, mattached, pinfo, subs, pm_info, pm_index,
                    heap, enumCalls, msig >>

\* The run loop calls device_added for newly matched services.
MonDeviceAdded(m) ==
    /\ UNCHANGED notMon
    /\ UNCHANGED mres
    /\ platform = "macos"
    /\ mpc[m] = "loop"
    /\ notifsLeft > 0
    /\ notifsLeft' = notifsLeft - 1
    /\ \E n \in 1..MaxBatch : DeviceAdded(m, pinfo[m].data, pinfo, n, FALSE)
    /\ UNCHANGED << sharedVars, mpc, mattached, subs, msig >>

\* The messages a subscribed service sends.
ServiceMessages == {"kIOMessageServiceIsTerminated", "kIOMessageServiceIsSuspended"}

\* The code device_removed passes to the sink, 0 for no call.
RemovedSinkCode(messageType, st) ==
    IF messageType = "kIOMessageServiceIsTerminated" /\ RemovalConfirmed(st) THEN 2 ELSE 0

\* The run loop calls device_removed(refCon, service, messageType, ...) for a
\* service the monitor subscribed to; refCon is the driver reference r.
MonDeviceRemoved(m) ==
    /\ UNCHANGED notMon
    /\ UNCHANGED mres
    /\ platform = "macos"
    /\ mpc[m] = "loop"
    /\ notifsLeft > 0
    /\ notifsLeft' = notifsLeft - 1
    /\ \E r \in 1..Len(heap), messageType \in ServiceMessages, st \in StatOutcomes :
         /\ heap[r].by = m
         /\ heap[r].subscribed
         /\ ~heap[r].terminated
         /\ messageType # "kIOMessageServiceIsTerminated" => st = "OK"
         /\ LET terminated == messageType = "kIOMessageServiceIsTerminated"
                owner == pinfo[heap[r].data].thread_id
            IN  /\ lastNotif' =
                       Notif(m, IF terminated THEN "removed" ELSE "other", FALSE, st, 1)
                /\ lastCalls' = IF RemovedSinkCode(messageType, st) # 0
                                THEN << PortCall(owner, RemovedSinkCode(messageType, st)) >>
                                ELSE << >>
                /\ heap' = [heap EXCEPT ![r].terminated = terminated]
    /\ UNCHANGED << sharedVars, mpc, mattached, pinfo, subs, pm_info, pm_index,
                    enumCalls, msig >>

\* The driver references exitMonitor_signal_handler releases and frees when
\* it runs on the thread of monitor m (macOS).
ReleasedBy(m) ==
    {p \in 1..Len(heap) :
        /\ \E x \in PmCells : pm_info[x] = p
        /\ pinfo[heap[p].data].thread_id = m}

\* exitMonitor_signal_handler runs on the thread.
MonExitSignal(m) ==
    /\ UNCHANGED notMon
    /\ UNCHANGED mres
    /\ mpc[m] = "loop"
    /\ msig[m]
    /\ msig' = [msig EXCEPT ![m] = FALSE]
    /\ mpc' = [mpc EXCEPT ![m] = "done"]
    /\ IF platform = "linux"
       THEN /\ mattached' = [mattached EXCEPT ![m] = FALSE]
            /\ UNCHANGED << heap, pm_info >>
       ELSE /\ heap' = [p \in 1..Len(heap) |->
                          IF p \in ReleasedBy(m)
                          THEN [heap[p] EXCEPT !.live = FALSE, !.subscribed = FALSE]
                          ELSE heap[p]]
            /\ pm_info' = [x \in PmCells |-> 0]
            /\ UNCHANGED mattached
    /\ UNCHANGED << sharedVars, pinfo, subs, pm_index, lastNotif, lastCalls,
                    enumCalls, notifsLeft >>

\* One step of the monitor threads in ms and of their callers.
MonStep(ms) ==
    \/ \E m \in ms : MonStart(m)
    \/ \E m \in ms : MonStop(m)
    \/ \E m \in ms : MonInit(m)
    \/ \E m \in ms : MonUdevEvent(m)
    \/ \E m \in ms : MonDeviceAdded(m)
    \/ \E m \in ms : MonDeviceRemoved(m)
    \/ \E m \in ms : MonExitSignal(m)

MonNext == MonStep(Monitors)

\* Two monitors at a time: one monitor more than MonNext runs.
MonitorPair == 1..(NumMonitors + 1)

MonPairNext == MonStep(MonitorPair)

(***************************************************************************)
(* The specifications                                                      *)
(***************************************************************************)
\* The registry runs on Windows; the Unix threads are not started there.
InitWin ==
    /\ SharedInit({"windows"}, {"null"})
    /\ WinInit /\ DataInitWith(0, 0, 0) /\ EventInitWith(0) /\ MonInitWith(0)

InitData ==
    /\ SharedInit(Platforms, {"null"})
    /\ WinInit /\ DataInitWith(MaxReads, MaxWakes, MaxWakes) /\ EventInitWith(0)
    /\ MonInitWith(0)

\* The unregister scenario.
InitDataLive ==
    /\ SharedInit(Platforms, {"null"})
    /\ WinInit /\ DataInitWith(MaxLiveReads, MaxLiveWakes, MaxLiveWakes) /\ EventInitWith(0)
    /\ MonInitWith(0)

\* The error-throttling scenario: no data arrives, and the port reports a
\* link error at every wake-up.
InitThrottle ==
    /\ SharedInit(Platforms, {"null"})
    /\ WinInit /\ DataInitWith(0, MaxErrWakes, 1) /\ EventInitWith(0) /\ MonInitWith(0)

\* A port monitor may have run before the event listener is registered.
InitEvent ==
    /\ SharedInit(Platforms, {"null", "jvm"})
    /\ WinInit /\ DataInitWith(0, 0, 0) /\ EventInitWith(MaxCycles) /\ MonInitWith(0)

InitMon ==
    /\ SharedInit(Platforms, {"null"})
    /\ WinInit /\ DataInitWith(0, 0, 0) /\ EventInitWith(0) /\ MonInitWith(MaxNotifs)

SpecWin == InitWin /\ [][WinNext]_vars

SpecWinSeq == InitWin /\ [][WinSeqNext]_vars

SpecTable == InitWin /\ [][TableNext]_vars

SpecData == InitData /\ [][DataNext]_vars

\* The thread is scheduled: a wait returns when a descriptor is ready, and a
\* read call returns.
SpecDataLive ==
    InitDataLive /\ [][DataNext]_vars /\ WF_vars(DataWake) /\ WF_vars(DataRead)

SpecThrottle == InitThrottle /\ [][ThrottleNext]_vars

\* The scenario of the full-size buffer: wake-ups, and reads of any number.
InitAccum ==
    /\ SharedInit(Platforms, {"null"})
    /\ WinInit /\ DataInitWith(0, MaxWakes, MaxWakes) /\ EventInitWith(0)
    /\ MonInitWith(0)

SpecAccum == InitAccum /\ [][AccumNext]_vars

\* The sink may raise an exception in a call.
InitFault ==
    /\ SharedInit(Platforms, {"null"})
    /\ WinInit
    /\ DataInitFaults(MaxFaultReads, MaxFaultWakes, MaxFaultWakes, MaxFaults)
    /\ EventInitWith(0)
    /\ MonInitWith(0)

SpecFault == InitFault /\ [][DataNext]_vars

SpecEvent == InitEvent /\ [][EventNext]_vars

SpecMon == InitMon /\ [][MonNext]_vars

\* The monitors of MonitorPair, with one notification fewer than in InitMon,
\* so that pm_info keeps a cell for every Driver Reference.
InitMonPair ==
    /\ SharedInit(Platforms, {"null"})
    /\ WinInit /\ DataInitWith(0, 0, 0) /\ EventInitWith(0)
    /\ MonInitOver(MonitorPair, MaxNotifs - 1)

SpecMonPair == InitMonPair /\ [][MonPairNext]_vars

\* The two listener threads of one port from registration to their end, with
\* no traffic on the port: both share the mutex of com_thread_params.
LifetimeNext ==
    \/ DataRegister
    \/ DataRegisterReturn
    \/ DataUnregisterFlag
    \/ DataUnregisterWake
    \/ DataLock
    \/ DataInit
    \/ DataWake
    \/ EventRegister
    \/ EventRegisterReturn
    \/ EventUnregister
    \/ EventLock
    \/ EventInit
    \/ EventExitSignal

InitLifetime ==
    /\ SharedInit(Platforms, {"null", "jvm"})
    /\ WinInit /\ DataInitWith(0, 0, 0) /\ EventInitWith(0) /\ MonInitWith(0)

SpecLifetime == InitLifetime /\ [][LifetimeNext]_vars

(***************************************************************************)
(* Windows registry: the claims                                            *)
(***************************************************************************)
\* The listener threads of handle h that are running.
AliveThreads(h) ==
    {s \in Slots : handle_looper_info[s].hComm = h /\ thr[s].pc \in {"init", "wait"}}

\* The slots of handle h whose exit flag is set.
ExitFlags(h) ==
    {s \in Slots : handle_looper_info[s].hComm = h /\ handle_looper_info[s].thread_exit = 1}

\* No call is in progress, no thread of h is still starting or was asked to
\* exit and has not yet done so, and no thread of h failed to be created or
\* failed its setup.
Quiescent(h) ==
    /\ \A c \in Callers : cpc[c] = "idle"
    /\ \A s \in Slots :
         handle_looper_info[s].hComm = h =>
            /\ thr[s].pc \notin {"none", "init"}
            /\ thr[s].init_done # E_FAIL
            /\ ~(thr[s].pc = "wait" /\ handle_looper_info[s].thread_exit = 1)

\* C1: for every sequence of register/unregister calls on one handle, once
\* the calls have returned and requested exits have completed, exactly one
\* listener thread is alive for the handle iff at least one role is
\* registered (and none is alive once both roles are unregistered).
C1_OneThreadIffRole ==
    \A h \in Handles :
        Quiescent(h) => ((Cardinality(AliveThreads(h)) = 1) <=> (roles[h] # {}))

\* C2: a handle never has two registry slots or two running listener
\* threads, also when register calls run concurrently.
C2_AtMostOneThread ==
    \A h \in Handles :
        /\ Cardinality(MatchingSlots(handle_looper_info, h)) <= 1
        /\ Cardinality(AliveThreads(h)) <= 1

\* C3: an unregister that leaves the other role registered only narrows the
\* wait mask: it sets no exit flag.
C3_NarrowOnly ==
    [][\A h \in Handles :
          (roles'[h] # {} /\ roles'[h] # roles[h] /\ roles'[h] \subseteq roles[h])
             => ExitFlags(h)' = ExitFlags(h)]_vars

\* C4: setupLooperThread does not return to its caller while the init-done
\* of the thread it spawned is still pending.
C4_ReturnsAfterInitDone ==
    \A c \in Callers :
        (cpc[c] = "ret" /\ cop[c].slot # -1) => thr[cop[c].slot].init_done # 0

(***************************************************************************)
(* The data listener: the claims                                           *)
(***************************************************************************)
\* C5: once data_thread_exit is 1 and the wake descriptor has been written,
\* data_looper terminates, whether the request found it blocked in its wait
\* or in its read step; and it does so at its next return from the wait: it
\* never goes from the wait to another read.
C5_UnregisterWakeTerminates ==
    /\ (data_thread_exit = 1 /\ wakePending /\ reqAt \in {"wait", "read"}) ~> (dpc = "done")
    /\ [][(data_thread_exit = 1 /\ wakePending /\ dpc = "wait")
             => dpc' \in {"wait", "done"}]_vars

\* The request found the thread in its read step, and the thread has ended.
C5_Witness ==
    /\ reqAt = "read"
    /\ data_thread_exit = 1
    /\ wakePending
    /\ dpc = "done"
    /\ openFds \cap AuxFds(platform) = {}

\* The bytes of the chunks, in the order the port returned them.
RECURSIVE Flatten(_)
Flatten(chunks) == IF chunks = << >> THEN << >> ELSE Head(chunks) \o Flatten(Tail(chunks))

DataCalls == {i \in DOMAIN sinkLog : sinkLog[i].k = "data"}
ErrorCalls == {i \in DOMAIN sinkLog : sinkLog[i].k = "error"}

\* C6: a transfer read as one partial chunk of k bytes and a completion of m
\* bytes is delivered to the sink once, as the k + m bytes in the order the
\* port returned them; the sink's data entry point is called once per
\* completed transfer.
C6_PartialReassembly ==
    /\ Cardinality(DataCalls) = transfers
    /\ \A i \in DataCalls :
          Len(sinkLog[i].chunks) = 2 =>
             /\ Len(sinkLog[i].bytes) = Len(sinkLog[i].chunks[1]) + Len(sinkLog[i].chunks[2])
             /\ sinkLog[i].bytes = Flatten(sinkLog[i].chunks)

\* C7: while every wake-up's first event carries a hard link error, the
\* sink's error entry point has been called once per full hundred of such
\* wake-ups, at the 100th and the 200th: twice after 250.
C7_ThrottleAtHundreds ==
    /\ Cardinality(ErrorCalls) = hardWakes \div 100
    /\ \A i \in ErrorCalls : sinkLog[i].at \in {100, 200}

(***************************************************************************)
(* The event listener: the claims                                          *)
(***************************************************************************)
\* The masks of the polled line states that differ from the value delivered
\* before them, prev at first.
RECURSIVE EdgeMasks(_, _)
EdgeMasks(states, prev) ==
    IF states = << >> THEN << >>
    ELSE LET mask == Decode(Head(states))
         IN  IF mask # prev
             THEN << mask >> \o EdgeMasks(Tail(states), mask)
             ELSE EdgeMasks(Tail(states), prev)

\* The polled line states CTS = 0, 1, 1, 0, the other lines low.
CtsUpDown == << {}, {"TIOCM_CTS"}, {"TIOCM_CTS"}, {} >>

\* C8: on macOS the sink's event entry point is called in a cycle iff the
\* decoded mask differs from the previously delivered value, 0 at first: the
\* deliveries are the edges of the polled states, no two consecutive
\* deliveries carry the same mask, and CTS = 0, 1, 1, 0 gives two deliveries.
C8_EdgeTriggered ==
    platform = "macos" =>
        /\ eventLog = EdgeMasks(polled, 0)
        /\ \A i \in 1..(Len(eventLog) - 1) : eventLog[i] # eventLog[i + 1]
        /\ polled = CtsUpDown => eventLog = << 1, 0 >>

C8_Witness ==
    /\ platform = "macos"
    /\ polled = CtsUpDown
    /\ Len(eventLog) = 2

(***************************************************************************)
(* The port monitor: the claims                                            *)
(***************************************************************************)
\* C9: on macOS the invocation of device_added made at subscription time
\* makes no sink call, and every later invocation makes exactly one, with
\* code 1.
C9_InitialEnumerationSuppressed ==
    platform = "macos" =>
        /\ \A m \in Monitors : enumCalls[m] \in {-1, 0}
        /\ lastNotif.kind = "added" =>
              IF lastNotif.synthetic
              THEN lastCalls = << >>
              ELSE lastCalls = << PortCall(lastNotif.m, 1) >>

\* A device was present at subscription time and was not reported; a device
\* plugged later was reported once.
C9_Witness ==
    /\ platform = "macos"
    /\ lastNotif.kind = "added" /\ ~lastNotif.synthetic
    /\ Len(lastCalls) = 1
    /\ enumCalls[lastNotif.m] = 0
    /\ \E r \in 1..Len(heap) : heap[r].by = lastNotif.m /\ heap[r].enumerated

\* C10: on a device-removed notification, a stat of the port path that
\* succeeds, or fails with EACCES, ELOOP, ENAMETOOLONG, ENOMEM, ENOTDIR,
\* EOVERFLOW or EFAULT, leads to no sink call; one that fails with ENOENT
\* leads to exactly one sink call, with code 2.
C10_RemovalRevalidated ==
    lastNotif.kind = "removed" =>
        /\ lastNotif.stat \in {"OK", "EACCES", "ELOOP", "ENAMETOOLONG", "ENOMEM",
                               "ENOTDIR", "EOVERFLOW", "EFAULT"}
              => lastCalls = << >>
        /\ lastNotif.stat = "ENOENT"
              => /\ Len(lastCalls) = 1
                 /\ lastCalls[1].code = 2

\* A removal was probed with ENOENT and reported once.
C10_Witness ==
    /\ lastNotif.kind = "removed"
    /\ lastNotif.stat = "ENOENT"
    /\ Len(lastCalls) = 1
    /\ lastCalls[1].code = 2

\* C11: every call of the port-presence sink carries code 1 or 2; code 1 is
\* passed only while a device-added notification is handled and code 2 only
\* while a device-removed notification is; a notification that is neither
\* leads to no call.
C11_SinkCodes ==
    /\ \A i \in DOMAIN lastCalls :
          /\ lastCalls[i].code \in {1, 2}
          /\ lastCalls[i].code = 1 => lastNotif.kind = "added"
          /\ lastCalls[i].code = 2 => lastNotif.kind = "removed"
    /\ lastNotif.kind \in {"other", "none"} => lastCalls = << >>

\* A notification that is neither an addition nor a removal was handled
\* by a running monitor, after which no call was made.
C11_Witness ==
    /\ lastNotif.kind = "other"
    /\ lastNotif.m \in Monitors
    /\ mpc[lastNotif.m] = "loop"
    /\ lastCalls = << >>

(***************************************************************************)
(* The listener threads: initialisation and descriptors                    *)
(***************************************************************************)
\* A step writes an init-done field only once, from 0, while the writing
\* thread holds the mutex, which it then releases.
InitDoneWrittenUnderMutex ==
    /\ data_init_done' # data_init_done =>
          (data_init_done = 0 /\ data_init_done' # 0 /\ mutexOwner = "data"
           /\ mutexOwner' = "none")
    /\ event_init_done' # event_init_done =>
          (event_init_done = 0 /\ event_init_done' # 0 /\ mutexOwner = "event"
           /\ mutexOwner' = "none")

\* C12: data_init_done and event_init_done each change only from 0, to 1 or
\* to an error code, in a step of their thread made while it holds the
\* mutex; a thread that is past its initialisation has stored a value, and
\* no later step writes the field again.
C12_InitDoneOnceUnderMutex ==
    /\ []((dpc \in {"wait", "read", "done"} => data_init_done # 0)
          /\ (epc \in {"loop", "done"} => event_init_done # 0))
    /\ [][InitDoneWrittenUnderMutex]_vars

\* Both threads have reported, one success and one failure, and the mutex
\* is free again.
C12_Witness ==
    /\ data_init_done = 1 /\ dpc = "wait"
    /\ event_init_done < 0 /\ epc = "done"
    /\ mutexOwner = "none"

\* C13: a thread whose initialisation failed has stored a negative value
\* in its init-done field, has ended without entering its loop, and has
\* made no sink call; the value 1 is stored only by a thread that entered
\* its loop.
C13_InitFailureReported ==
    /\ (dpc \in {"wait", "read", "done"}) =>
          \/ /\ data_init_done = 1
             /\ (dpc = "done") => (data_thread_exit = 1 /\ wakePending)
          \/ /\ data_init_done < 0
             /\ dpc = "done"
             /\ sinkLog = << >>
    /\ (epc \in {"loop", "done"}) =>
          \/ /\ event_init_done = 1
             /\ (epc = "done") => (event_thread_exit = 1)
          \/ /\ event_init_done < 0
             /\ epc = "done"
             /\ eventLog = << >>

\* data_looper failed after it had created its wake descriptor, and
\* event_looper failed too.
C13_Witness ==
    /\ dpc = "done" /\ data_init_done < 0 /\ data_init_done # -240 /\ evfd # 0
    /\ epc = "done" /\ event_init_done = -240

\* C17: the port descriptor passed at registration stays open on every
\* path of the listener threads and of the unregister operations.
C17_PortNeverClosed == "port" \in openFds

\* Both listeners were unregistered and their threads have ended.
C17_Witness ==
    /\ dpc = "done" /\ data_thread_exit = 1
    /\ epc = "done" /\ event_thread_exit = 1
    /\ "port" \in openFds

\* C18: once data_looper has ended, by a failed initialisation or by a
\* requested exit, none of the descriptors it created is open.
C18_AuxDescriptorsClosed == dpc = "done" => openFds \cap AuxFds(platform) = {}

\* The initialisation failed after the wake descriptor was created.
C18_Witness ==
    /\ dpc = "done"
    /\ data_init_done < 0
    /\ evfd # 0
    /\ openFds \cap AuxFds(platform) = {}

ReadErrorStep ==
    /\ dpc = "read"
    /\ readsLeft' # readsLeft
    /\ lastRead'.ret < 0
    /\ lastRead'.errno # EINTR

\* The step made exactly one sink call, to the data-error entry point with
\* the errno of the read, and the thread is back at its wait.
OneErrorCallThenWait ==
    /\ Len(sinkLog') = Len(sinkLog) + 1
    /\ SubSeq(sinkLog', 1, Len(sinkLog)) = sinkLog
    /\ sinkLog'[Len(sinkLog')].k = "error"
    /\ sinkLog'[Len(sinkLog')].code = lastRead'.errno
    /\ dpc' = "wait"

\* C15: a read that fails with an errno other than EINTR leads to exactly
\* one call of the sink's data-error entry point, carrying that errno, to
\* no data delivery, and the thread returns to its wait.
C15_ReadErrorReported == [][ReadErrorStep => OneErrorCallThenWait]_vars

\* A read failed, the error was reported, and the thread waits again.
C15_Witness ==
    /\ lastRead.ret < 0
    /\ lastRead.errno # EINTR
    /\ dpc = "wait"
    /\ sinkLog # << >>
    /\ sinkLog[Len(sinkLog)].k = "error"
    /\ sinkLog[Len(sinkLog)].src = "read"
    /\ sinkLog[Len(sinkLog)].code = lastRead.errno

C19_SinkReferenceReleased ==
    \A s \in Slots : handle_looper_info[s].looper_ref # 0 => thr[s].pc # "none"

\* C20: every step that changes the registry, the table or dtp_index, is
\* made while csmutex is held.
C20_RegistryUnderMutex ==
    [][(handle_looper_info' # handle_looper_info \/ dtp_index' # dtp_index)
          => csOwner # 0]_vars

(***************************************************************************)
(* Windows registry: the life of an entry and the results of register      *)
(***************************************************************************)
\* C21: once both roles of a handle are unregistered and the listener that
\* was asked to exit has ended, the registry holds no entry for the handle:
\* the entry whose exit flag was set no longer matches a scan for it.
C21_EntryDestroyed ==
    \A h \in Handles : \A s \in Slots :
        (/\ roles[h] = {}
         /\ \A c \in Callers : cpc[c] = "idle"
         /\ handle_looper_info[s].thread_exit = 1
         /\ thr[s].init_done = 1
         /\ thr[s].pc = "done")
           => handle_looper_info[s].hComm # h

\* The single bits of the wait mask.
MaskBits == {EV_RXCHAR, EV_RXFLAG, EV_CTS, EV_DSR, EV_RLSD, EV_BREAK, EV_ERR, EV_RING}

HasBit(mask, b) == BitAnd(mask, b) = b

\* The bits the register call of a role asks for.
RequestedBits(role) ==
    IF role = "data" THEN {EV_RXCHAR}
    ELSE {EV_BREAK, EV_CTS, EV_DSR, EV_ERR, EV_RING, EV_RLSD, EV_RXFLAG}

\* Caller c completes a register call that found an entry for its handle.
RegisterOnExisting(c) ==
    /\ cpc[c] = "scanned"
    /\ cop[c].thread_exist = 1
    /\ cpc'[c] = "ret"

\* C28: a register call that found an entry for its handle spawns no thread
\* and claims no slot; when it succeeds, a bit is set in the new wait mask
\* iff it was set before or belongs to the requested role, so the bits of
\* the other role stay set; when it fails the mask is unchanged.
C28_RegisterOnExistingOrsMask ==
    [][\A c \in Callers :
          RegisterOnExisting(c) =>
             /\ thr' = thr
             /\ dtp_index' = dtp_index
             /\ handle_looper_info' = handle_looper_info
             /\ IF cop[c].fn \in roles'[cop[c].h]
                THEN \A b \in MaskBits :
                        HasBit(commMask'[cop[c].h], b) <=>
                           (HasBit(commMask[cop[c].h], b) \/ b \in RequestedBits(cop[c].fn))
                ELSE commMask' = commMask]_vars

\* Reached: the event role was registered on the entry of a running data
\* listener and the mask holds the bits of both roles.
C28_Witness ==
    \E c \in Callers :
        /\ cpc[c] = "ret"
        /\ cop[c].fn = "event"
        /\ cop[c].thread_exist = 1
        /\ roles[cop[c].h] = {"data", "event"}
        /\ commMask[cop[c].h] = BitOr(EV_RXCHAR, EventBits)

\* C29: a register call returns 0 when the registration succeeded, whether
\* a thread was created or only the mask of an existing entry was updated,
\* and a negative error code when it failed.
C29_RegisterResultDefined ==
    \A c \in Callers :
        (cpc[c] = "ret" /\ cop[c].fn \in {"data", "event"}) =>
            IF cop[c].fn \in roles[cop[c].h]
            THEN cop[c].ret = 0
            ELSE cop[c].ret < 0

(***************************************************************************)
(* The port monitor: what is released, and when                            *)
(***************************************************************************)
\* The driver references monitor m created that are still allocated.
LiveRefs(m) == {p \in 1..Len(heap) : heap[p].by = m /\ heap[p].live}

\* C22: when the monitor thread has ended on an exit request, it holds none
\* of the subscription objects it created (udev context and udev monitor;
\* notification port, run-loop source, matching iterator) and none of its
\* driver references is still allocated.
C22_MonitorExitReleasesAll ==
    \A m \in Monitors :
        mpc[m] = "done" => (subs[m] = {} /\ LiveRefs(m) = {})

\* C23: once device_removed has run for a terminated service, the driver
\* reference of that service is freed, its service object and notification
\* are released, and no cell of pm_info points to it.
C23_DriverReferenceFreed ==
    \A p \in 1..Len(heap) :
        heap[p].terminated =>
            /\ ~heap[p].live
            /\ ~heap[p].subscribed
            /\ \A x \in PmCells : pm_info[x] # p

(***************************************************************************)
(* The event listener: how it is stopped                                   *)
(***************************************************************************)
\* C24: the macOS loop checks event_thread_exit in every cycle: a cycle that
\* starts with the flag set reads no line status and delivers nothing, the
\* thread ends instead.
C24_ExitFlagCheckedEachCycle ==
    [][(platform = "macos" /\ epc = "loop" /\ event_thread_exit = 1)
          => (epc' = "done" \/ (polled' = polled /\ eventLog' = eventLog))]_vars

\* C25: once event_exit_signal_handler has ended a thread that finished its
\* setup, the thread is detached from the runtime it attached to and the
\* handler has touched no invalid pointer, whether or not a port monitor
\* was started before.
C25_HandlerDetaches ==
    (epc = "done" /\ event_init_done = 1) => (~eattached /\ ~efault)

(***************************************************************************)
(* The data listener: what stops it, and what a wait error does            *)
(***************************************************************************)
\* data_looper leaves its loop in this step.
DataLoopExit == dpc \in {"wait", "read"} /\ dpc' = "done"

\* C26: after a successful setup data_looper ends only in an iteration in
\* which the wake descriptor was written, and so reported by the wait, and
\* data_thread_exit is 1: the flag alone does not end it, and neither does
\* the wake descriptor alone.
C26_ExitNeedsFlagAndWake ==
    [][DataLoopExit => (data_thread_exit = 1 /\ wakePending)]_vars

\* C30: a wait that returns an error or no ready descriptor (result <= 0)
\* is retried by looping: the step makes no call of the sink, leaves the
\* error counter as it was, and the thread stays in its wait.
C30_WaitErrorRetried ==
    [][(dpc = "wait" /\ waitRet' <= 0)
          => (sinkLog' = sinkLog /\ errorCount' = errorCount /\ dpc' = "wait")]_vars

\* Reached: a wait returned 0 after an earlier wait had reported the port
\* readable and the data was delivered; the thread is waiting again.
C30_Witness ==
    /\ dpc = "wait"
    /\ waitRet = 0
    /\ ReadCondition(platform, evlist)
    /\ \E i \in DOMAIN sinkLog : sinkLog[i].k = "data"

(***************************************************************************)
(* The data listener: the partial-read accumulator after a delivery        *)
(***************************************************************************)
\* This step delivers data that was assembled from partial reads.
DeliversAssembled ==
    /\ partialData = 1
    /\ Len(sinkLog') > Len(sinkLog)
    /\ sinkLog'[Len(sinkLog')].k = "data"

\* This step delivers a transfer that consisted of one read.
DeliversCleanRead ==
    /\ Len(sinkLog') > Len(sinkLog)
    /\ sinkLog'[Len(sinkLog')].k = "data"
    /\ Len(sinkLog'[Len(sinkLog')].chunks) = 1

\* C27: a delivery that followed partial reads puts the partial-pending flag
\* and the accumulator index back to their initial values, and a transfer
\* that consisted of one clean read is delivered as exactly the bytes of
\* that read.
C27_AccumulatorReset ==
    [][/\ DeliversAssembled => (partialData' = -1 /\ index' = 0)
       /\ DeliversCleanRead =>
             sinkLog'[Len(sinkLog')].bytes = sinkLog'[Len(sinkLog')].chunks[1]]_vars

(***************************************************************************)
(* The data listener: a read that returns nothing                          *)
(***************************************************************************)
\* The read loop ends on a read that returned zero bytes.
ZeroReadStep ==
    /\ dpc = "read"
    /\ dpc' # "read"
    /\ lastRead'.ret = 0

\* C31: a read that returns zero bytes although the port was reported
\* readable ends the iteration without delivery: the sink is not called,
\* neither with data nor with an error, and the thread is back at its wait.
C31_ZeroReadNoDelivery ==
    [][ZeroReadStep => (sinkLog' = sinkLog /\ dpc' = "wait")]_vars

\* Reached: the wait reported the port readable, the read returned zero
\* bytes, nothing was delivered and the thread waits again.
C31_Witness ==
    /\ dpc = "wait"
    /\ waitRet >= 1
    /\ ReadCondition(platform, evlist)
    /\ lastRead.ret = 0
    /\ sinkLog = << >>

\* A cycle of the event loop in which both ioctl calls succeeded: the line
\* state TIOCMGET returned is recorded.
CycleRead == epc = "loop" /\ Len(polled') = Len(polled) + 1

\* A cycle of the event loop in which TIOCMIWAIT or TIOCMGET failed.
CycleFailed == epc = "loop" /\ cyclesLeft' < cyclesLeft /\ polled' = polled

\* C32: on Linux every cycle in which TIOCMIWAIT and TIOCMGET both succeed
\* calls the sink exactly once, with the mask decoded from the line state of
\* that cycle, whether or not it equals the mask of the previous cycle.
C32_LinuxDeliversEveryCycle ==
    [][(platform = "linux" /\ CycleRead)
          => eventLog' = Append(eventLog, Decode(polled'[Len(polled')]))]_vars

\* Two Linux cycles in a row delivered the same mask.
C32_Witness ==
    /\ platform = "linux"
    /\ Len(polled) >= 2
    /\ Len(eventLog) = Len(polled)
    /\ eventLog[1] = eventLog[2]

\* C33: a delivered mask lies in 0..15 and has bit 0x01 exactly when CTS is
\* asserted in the line state of the same cycle, 0x02 exactly for DSR, 0x04
\* exactly for DCD and 0x08 exactly for RI; nothing of an earlier cycle
\* remains in it.
C33_MaskDecodedAfresh ==
    [][(CycleRead /\ Len(eventLog') = Len(eventLog) + 1)
          => LET m == eventLog'[Len(eventLog')]
                 st == polled'[Len(polled')]
             IN  /\ m \in 0..15
                 /\ HasBit(m, CTS) <=> "TIOCM_CTS" \in st
                 /\ HasBit(m, DSR) <=> "TIOCM_DSR" \in st
                 /\ HasBit(m, DCD) <=> "TIOCM_CD" \in st
                 /\ HasBit(m, RI) <=> "TIOCM_RI" \in st]_vars

\* All four lines were asserted in one cycle and only the ring indicator in
\* the next: 15 was delivered, then 8.
C33_Witness ==
    /\ Len(eventLog) >= 2
    /\ eventLog[1] = 15
    /\ eventLog[2] = RI

\* C34: a cycle in which TIOCMIWAIT or TIOCMGET fails leaves the thread in
\* its loop and attached, calls no sink, and leaves the mask last delivered
\* on the edge-triggered platform as it was.
C34_FailedIoctlSkipsCycle ==
    [][CycleFailed => /\ epc' = "loop"
                      /\ eattached' = eattached
                      /\ eventLog' = eventLog
                      /\ oldstate' = oldstate]_vars

\* On macOS a mask was delivered and a later cycle failed: fewer line states
\* were read than cycles ran, and the thread is still in its loop.
C34_Witness ==
    /\ platform = "macos"
    /\ epc = "loop"
    /\ oldstate # 0
    /\ Len(polled) + cyclesLeft < MaxCycles

\* C35: a monitor thread that attached itself to the host runtime is detached
\* when it has ended, whether it ended in a failed initialisation or through
\* exitMonitor_signal_handler.
C35_MonitorDetachesOnExit ==
    \A m \in Monitors : mpc[m] \in {"failed", "done"} => ~mattached[m]

\* C36: a caller that has returned from setupLooperThread, with success or
\* with a failure code, no longer owns the process-wide mutex.
C36_SetupReleasesMutex ==
    \A c \in Callers : cpc[c] = "ret" => csOwner # c

\* C37: the index at which setupLooperThread stored a registration is below
\* MAX_NUM_THREADS, the number of cells of handle_looper_info.
C37_StoreIndexInTable ==
    \A c \in Callers : cop[c].slot < MAX_NUM_THREADS

\* The wait that just returned reported the port itself readable.
PortReportedReadable ==
    \E i \in 1..waitRet : evlist[i].ident = "port" /\ "EPOLLIN" \in evlist[i].flags

\* The wait that just returned reported the wake descriptor and nothing else.
WakeOnlyReported == waitRet = 1 /\ evlist[1].ident = "wake"

OwnerOf(p) == pinfo[heap[p].data].thread_id

\* C39: on macOS, when exitMonitor_signal_handler runs on one monitor
\* thread, every pm_info entry of another monitor that is running stays in
\* its cell and its Driver Reference stays allocated.
C39_OtherMonitorsKept ==
    [][\A m \in DOMAIN mpc :
          (platform = "macos" /\ mpc[m] = "loop" /\ mpc'[m] = "done")
             => \A x \in PmCells :
                   (/\ pm_info[x] # 0
                    /\ OwnerOf(pm_info[x]) # m
                    /\ mpc[OwnerOf(pm_info[x])] = "loop")
                      => (pm_info'[x] = pm_info[x] /\ heap'[pm_info[x]].live)]_vars

\* A read of the full-size scenario returned bytes.
LengthsStep == dpc = "read" /\ lastRead'.ret > 0

\* The read copies into final_buf: it is a partial read, or a complete read
\* that follows partial ones.
CopiesIntoFinalBuf == lastRead'.errno = EINTR \/ partialData = 1

\* C40: in every sequence of partial and complete reads of at most
\* BufferSize bytes each, every index of final_buf that a read writes is
\* below FinalBufSize, and the length index + ret handed to the byte array
\* after partial reads is at most FinalBufSize.
C40_AccumulatorWithinCapacity ==
    [][(LengthsStep /\ CopiesIntoFinalBuf)
          => /\ \A i \in CopiedIndices(index, lastRead'.ret) : i \in 0..(FinalBufSize - 1)
             /\ (lastRead'.errno = 0)
                   => AssembledLength(index, lastRead'.ret) <= FinalBufSize]_vars

\* A partial read of BufferSize bytes was followed by a complete read of
\* BufferSize bytes: the length handed over was twice BufferSize.
C40_Witness ==
    /\ partialData = 1
    /\ index = BufferSize
    /\ lastRead = [ret |-> BufferSize, errno |-> 0]
    /\ dpc = "wait"

=============================================================================
